---------------------------- MODULE Spec2Model ----------------------------
(***************************************************************************)
(* EcommerceContentFilter (src/util/ecommerce_content_filter.py) as a      *)
(* state machine: one filter object, its attributes, and one call of       *)
(* filter_content on a parsed element tree.                                *)
(*                                                                         *)
(* The parsed document is a sequence of elements in document (depth-first, *)
(* pre-order) order; the body is the implicit root, node 0.  Every element *)
(* carries its tag name, the value of its class attribute, the words of    *)
(* its own leading text node and its depth below the body.  Text is kept   *)
(* as a sequence of words: get_text(" ", strip=True) joins the stripped    *)
(* strings with one blank, so its length is the sum of the word lengths    *)
(* plus the blanks, and text.split() gives the words back.                 *)
(*                                                                         *)
(* Scores are Python floats in the source; here they are exact rationals   *)
(* scaled by 100 (num / den), compared by cross-multiplication.            *)
(***************************************************************************)
EXTENDS Integers, Sequences, FiniteSets, TLC

VARIABLES
    has,                 \* names of the attributes set after construction
    user_query,          \* self.user_query, split into words
    keep_top_n,          \* self.keep_top_n
    max_chars,           \* self.max_chars
    min_word_threshold,  \* self.min_word_threshold
    retention_threshold, \* self.retention_threshold, in percent
    soup,                \* the parsed argument of filter_content:
                         \*   html: the elements in document order
                         \*   layout: "oneline" (no line break in the markup)
                         \*     or "multiline" (every element starts a new line)
                         \*   tracksLines: whether the parser recorded
                         \*     Tag.sourceline
    removed,             \* elements decomposed so far (with their subtrees)
    candidates,          \* the list of (order, score, node), sorted at line 110
    idx,                 \* position of the loop of line 115 in candidates
    accepted,            \* accepted card roots, in order of acceptance
    acceptedFrom,        \* history: the candidate each card was built from
    covered_ranges,      \* (start_line, end_line) of the accepted cards
    result,              \* the returned list of fragments
    previous,            \* history: whether this call runs on the output of
                         \*   an earlier call, and that output
    pc                   \* position in filter_content

(* UniversalProductFilter (src/util/universal_content_filter.py) *)
VARIABLES
    MODELS_AVAILABLE,    \* the module's flag, set when the module is imported
    u_pc,                \* position: module imported, filter built, in filter_content
    u_keep_top_n,        \* self.keep_top_n
    u_page,              \* the parsed argument of filter_content and what the NLP
                         \*   models say about it:
                         \*   depth: the elements' depths in document order
                         \*   score: _score_element_with_nlp, 0 for an element
                         \*     the pre-filters reject
                         \*   similar: the pairs of elements whose descriptions
                         \*     have cosine similarity above the threshold
    u_candidates,        \* candidates, a list of (score, node)
    u_unique,            \* unique_candidates
    u_discard,           \* indices_to_discard
    u_i,                 \* the index i of the loop of line 202
    u_result             \* the returned list, as the elements printed

(* prune_invalid_links (src/util/url_helpers.py) *)
VARIABLES
    links,               \* the links argument: a list of (href, pos), pos the
                         \*   place of the link in the argument
    entry_url,           \* the entry_url argument
    reduced,             \* the list being built, returned at the end
    l_seen,              \* seen: the absolute URLs kept so far
    l_i,                 \* the loop of line 36: index of the next link
    l_pc                 \* position in prune_invalid_links

filterVars == <<retention_threshold, previous, has, user_query, keep_top_n, max_chars, min_word_threshold, soup,
          removed, candidates, idx, accepted, acceptedFrom, covered_ranges,
          result, pc>>

universalVars == <<MODELS_AVAILABLE, u_pc, u_keep_top_n, u_page, u_candidates,
                   u_unique, u_discard, u_i, u_result>>

(* DB (src/db.py) *)
VARIABLES
    d_domains,           \* the names in table domains
    d_links,             \* table category_links in order of id: rows of
                         \*   url, domain, found_at, last_crawled_at (0: NULL)
    d_products,          \* table products in order of id: rows of
                         \*   category_link_id, domain
    d_now,               \* the clock
    d_call,              \* the last call of a DB method: its name, the domain
                         \*   asked for (of a get), whether it raised and what
                         \*   it returned, and of add_category_link whether its
                         \*   URL was stored before and whether category_links
                         \*   changed
    d_run,               \* per domain: the URLs returned in the present run
                         \*   of get_oldest_uncrawled_category_link alternating
                         \*   with update_category_link_crawled
    d_await              \* per domain: the returned URL not yet updated

linkVars == <<links, entry_url, reduced, l_seen, l_i, l_pc>>

(* ProductExtractor._get_or_generate_schema (src/products/extractor.py) and
   table product_schemas *)
VARIABLES
    d_schemas,           \* table product_schemas in order of id: rows of
                         \*   domain, generated_at
    x_call               \* the last call of _get_or_generate_schema: its
                         \*   argument, the latest schema it found (0: none)
                         \*   and its age, whether it crawled, whether it
                         \*   stored a schema, the schema returned (0: None)

schemaVars == <<d_schemas, x_call>>

(* ProductExtractor.extract_products_from_category (src/products/extractor.py)
   and extract_products (src/main.py) *)
VARIABLES
    e_call               \* the call under way or ended last: where it stands,
                         \*   the mode and the category URL of the extractor,
                         \*   the domain extract_products asks for, what the
                         \*   crawl gave, whether its content parsed, whether
                         \*   the extractor raised, the length of the list it
                         \*   returned, and category_links and the number of
                         \*   products as the extractor and the run found them

extractVars == <<e_call>>

dbVars == <<d_domains, d_links, d_products, d_now, d_call, d_run, d_await>>

(* what the steps of EcommerceContentFilter leave alone *)
notFilter == <<universalVars, linkVars, dbVars, schemaVars, extractVars>>

(* what the steps of UniversalProductFilter leave alone *)
notUniversal == <<filterVars, linkVars, dbVars, schemaVars, extractVars>>

(* what the steps of prune_invalid_links leave alone *)
notLinks == <<filterVars, universalVars, dbVars, schemaVars, extractVars>>

(* what the calls of DB leave alone *)
notDb == <<filterVars, universalVars, linkVars, schemaVars, extractVars>>

vars == <<filterVars, universalVars, linkVars, dbVars, schemaVars,
         extractVars>>

-----------------------------------------------------------------------------
(* Bounds of the model *)

MaxNodes == 2

MaxKeep == 2

(* max_chars as a caller may lower it, so that short texts exceed it *)
LowMaxChars == 20

-----------------------------------------------------------------------------
(* Program constants *)

DefaultMaxChars == 800

DefaultMinWords == 2

(* retention_threshold: float = 0.3, in percent *)
DefaultRetention == 30

HeadLen == 120

(* scoring weights, times 10 *)
W_PRICE == 25

W_QUERY == 10

W_DENS == 6

W_TAG == 3

(* base usefulness of a tag, times 10 *)
TAG_W ==
    [h1 |-> 14, h2 |-> 13, h3 |-> 12, p |-> 11, li |-> 10,
     article |-> 15, section |-> 13, div |-> 6, span |-> 3]

InTagW(tag) == tag \in {"h1", "h2", "h3", "p", "li", "article", "section", "div", "span"}

BadTags == {"script", "style", "noscript", "svg", "iframe", "form"}

-----------------------------------------------------------------------------
(* The input alphabet *)

(* the element kinds of the bounded inputs: tag, class attribute, own text *)
Elements ==
    {<<"div", "", <<>>>>,
     <<"div", "price", <<>>>>,
     <<"div", "banner", <<>>>>,
     <<"span", "", <<"$19.99">>>>,
     <<"span", "", <<"Widget">>>>,
     <<"span", "", <<"wireless", "Widget">>>>,
     <<"span", "", <<"sale">>>>,
     <<"span", "price", <<"$19.99">>>>,
     <<"span", "price", <<"wireless", "Widget">>>>,
     <<"nav", "", <<>>>>,
     <<"script", "", <<"$19.99">>>>}

Queries == {<<"wireless">>}

(* _PRICE_RE on a text of these words: only "$19.99" is a currency amount *)
PriceRe(text) == \E k \in 1..Len(text) : text[k] = "$19.99"

(* _PRICE_ATTR_RE on an attribute value *)
PriceAttrRe(v) == v = "price"

(* _NEG_CLASS_ID_RE on the joined class and id *)
NegClassIdRe(v) == v = "banner"

(* str.lower on a word *)
Lower(w) == IF w = "Widget" THEN "widget" ELSE w


-----------------------------------------------------------------------------
(* The element tree *)

Max(S) == CHOOSE x \in S : \A y \in S : y <= x

(* Tag.parent: the nearest preceding element one level up; 0 is the body *)
Parent(doc, i) ==
    LET up == {j \in 1..(i - 1) : doc[j].depth = doc[i].depth - 1}
    IN  IF up = {} THEN 0 ELSE Max(up)

(* the element and its descendants: a contiguous run of the document order *)
Subtree(doc, i) ==
    {j \in i..Len(doc) : \A k \in (i + 1)..j : doc[k].depth > doc[i].depth}

(* Tag.descendants, elements only *)
Descendants(doc, i) == Subtree(doc, i) \ {i}

(* Tag.decompose(): the elements of S and everything below them leave the tree *)
Decompose(doc, S, rem) == rem \cup UNION {Subtree(doc, d) : d \in S}

(* depth sequences of well-formed pre-order listings of n elements *)
Shapes(n) ==
    {d \in [1..n -> 1..MaxNodes] :
        /\ n > 0 => d[1] = 1
        /\ \A i \in 2..n : d[i] <= d[i - 1] + 1}

(* what the parser can build: a script holds raw text, never elements *)
ParserOutput(doc) ==
    \A i \in 1..Len(doc) :
        (doc[i].tag \in BadTags /\ i < Len(doc)) =>
            doc[i + 1].depth <= doc[i].depth

(* <div><span class="price">$19.99</span><span>Widget</span></div> *)
ExampleDoc ==
    <<[tag |-> "div", depth |-> 1, cls |-> "", txt |-> <<>>],
      [tag |-> "span", depth |-> 2, cls |-> "price", txt |-> <<"$19.99">>],
      [tag |-> "span", depth |-> 2, cls |-> "", txt |-> <<"Widget">>]>>

(* <div><span>wireless Widget</span><span>$19.99</span></div>: 22 characters of text *)
LongTextDoc ==
    <<[tag |-> "div", depth |-> 1, cls |-> "", txt |-> <<>>],
      [tag |-> "span", depth |-> 2, cls |-> "", txt |-> <<"wireless", "Widget">>],
      [tag |-> "span", depth |-> 2, cls |-> "", txt |-> <<"$19.99">>]>>

(* <div class="price"><div class="banner"><span>wireless Widget</span></div></div> *)
NestedPromoDoc ==
    <<[tag |-> "div", depth |-> 1, cls |-> "price", txt |-> <<>>],
      [tag |-> "div", depth |-> 2, cls |-> "banner", txt |-> <<>>],
      [tag |-> "span", depth |-> 3, cls |-> "", txt |-> <<"wireless", "Widget">>]>>

(* <div><div class="banner"><span>$19.99</span></div></div> *)
PrunedPriceDoc ==
    <<[tag |-> "div", depth |-> 1, cls |-> "", txt |-> <<>>],
      [tag |-> "div", depth |-> 2, cls |-> "banner", txt |-> <<>>],
      [tag |-> "span", depth |-> 3, cls |-> "", txt |-> <<"$19.99">>]>>

(* <div><span>wireless Widget</span><span class="banner">$19.99</span></div> *)
PromoPriceDoc ==
    <<[tag |-> "div", depth |-> 1, cls |-> "", txt |-> <<>>],
      [tag |-> "span", depth |-> 2, cls |-> "", txt |-> <<"wireless", "Widget">>],
      [tag |-> "span", depth |-> 2, cls |-> "banner", txt |-> <<"$19.99">>]>>

(* the inputs: every document of at most MaxNodes elements, and the five above *)
Documents ==
    {doc \in UNION {
        {[i \in 1..n |-> [tag |-> lab[i][1], cls |-> lab[i][2],
                          txt |-> lab[i][3], depth |-> d[i]]] :
            lab \in [1..n -> Elements], d \in Shapes(n)}
        : n \in 1..MaxNodes} : ParserOutput(doc)}
    \cup {ExampleDoc, LongTextDoc, NestedPromoDoc, PrunedPriceDoc, PromoPriceDoc}

LineModes == {<<"oneline", FALSE>>, <<"multiline", FALSE>>, <<"multiline", TRUE>>}

(* BeautifulSoup(html, "lxml") for every input of the bounds *)
Soups ==
    {[html |-> doc, layout |-> mode[1], tracksLines |-> mode[2]] :
        doc \in Documents, mode \in LineModes}

-----------------------------------------------------------------------------
(* Text and markup of an element, given the set rem of decomposed elements *)

RECURSIVE WordsFrom(_, _, _, _)
WordsFrom(doc, j, last, rem) ==
    IF j > last THEN <<>>
    ELSE (IF j \in rem THEN <<>> ELSE doc[j].txt) \o WordsFrom(doc, j + 1, last, rem)

(* node.get_text(" ", strip=True), as its words *)
GetText(s, i, rem) == WordsFrom(s.html, i, Max(Subtree(s.html, i)), rem)

RECURSIVE SumLen(_)
SumLen(text) == IF text = <<>> THEN 0 ELSE Len(Head(text)) + SumLen(Tail(text))

(* len(text): the words and one blank between neighbours *)
TextLen(text) == IF text = <<>> THEN 0 ELSE SumLen(text) + Len(text) - 1

(* markup of the element's own tags: <tag class="v"> and </tag> *)
TagLen(doc, i) ==
    2 * Len(doc[i].tag) + 5
    + (IF doc[i].cls = "" THEN 0 ELSE Len(doc[i].cls) + 9)

(* the line breaks inside the element: one before every child element, and the
   one before a decomposed child stays behind as a text node of its parent *)
Breaks(s, i, rem) ==
    IF s.layout = "multiline"
    THEN Cardinality({j \in Descendants(s.html, i) : Parent(s.html, j) \notin rem})
    ELSE 0

RECURSIVE MarkupFrom(_, _, _, _)
MarkupFrom(doc, j, last, rem) ==
    IF j > last THEN 0
    ELSE (IF j \in rem THEN 0 ELSE TagLen(doc, j) + TextLen(doc[j].txt))
         + MarkupFrom(doc, j + 1, last, rem)

(* len(str(node)) *)
StrLen(s, i, rem) ==
    MarkupFrom(s.html, i, Max(Subtree(s.html, i)), rem) + Breaks(s, i, rem)

(* len(node.encode_contents()) *)
ContentsLen(s, i, rem) == StrLen(s, i, rem) - TagLen(s.html, i)

(* len(str(node).splitlines()) *)
StrLines(s, i, rem) == 1 + Breaks(s, i, rem)

(* node.sourceline or 0: None without line tracking and on a decomposed element *)
Sourceline(s, i, rem) ==
    IF i \in rem \/ ~s.tracksLines THEN 0
    ELSE IF s.layout = "multiline" THEN i ELSE 1

(* str(node): the element, its remaining descendants and the line breaks left
   by decomposed children; a decomposed element prints no content *)
Fragment(s, i, rem) ==
    IF i \in rem THEN <<>>
    ELSE LET doc  == s.html
             last == Max(Subtree(doc, i))
             keep == {j \in i..last :
                        j \notin rem \/ (s.layout = "multiline" /\ Parent(doc, j) \notin rem)}
             F[j \in (i - 1)..last] ==
                 IF j < i THEN <<>>
                 ELSE IF j \notin keep THEN F[j - 1]
                 ELSE Append(F[j - 1],
                        IF j \in rem THEN [gap |-> doc[j].depth - doc[i].depth]
                        ELSE [tag |-> doc[j].tag, cls |-> doc[j].cls,
                              txt |-> doc[j].txt,
                              depth |-> doc[j].depth - doc[i].depth,
                              br |-> s.layout = "multiline" /\ j > i])
         IN  F[last]

-----------------------------------------------------------------------------
(* Price and promo detectors *)

(* _looks_like_price(text, node) *)
LooksLikePrice(s, text, i) == PriceRe(text) \/ PriceAttrRe(s.html[i].cls)

(* _NEG_TEXT_RE on text[:120]: a promo word that ends within the head *)
NegTextRe(text) ==
    \E k \in 1..Len(text) :
        /\ text[k] = "sale"
        /\ TextLen(SubSeq(text, 1, k)) <= HeadLen

(* _is_promo(node) *)
IsPromo(s, i, rem) == NegClassIdRe(s.html[i].cls) \/ NegTextRe(GetText(s, i, rem))

-----------------------------------------------------------------------------
(* Scoring *)

ToSet(seq) == {seq[k] : k \in 1..Len(seq)}

(* _query_sim with the query ignored *)
QuerySimZero(query, text) == [num |-> 0, den |-> 1]

(* _query_sim(text) as the fraction num / den *)
QuerySim(query, text) ==
    LET q_tokens == ToSet(query)
        t_tokens == {Lower(w) : w \in ToSet(text)}
    IN  IF query = <<>> \/ q_tokens = {}
        THEN [num |-> 0, den |-> 1]
        ELSE [num |-> Cardinality(q_tokens \cap t_tokens),
              den |-> Cardinality(q_tokens)]

(* _score(node, text), times 100, as the fraction num / den *)
Score(s, i, text, rem, query) ==
    LET has_price == IF LooksLikePrice(s, text, i) THEN 1 ELSE 0
        tag_len   == ContentsLen(s, i, rem)
        sim       == QuerySim(query, text)
        tag_w     == IF InTagW(s.html[i].tag) THEN TAG_W[s.html[i].tag] ELSE 5
    IN  IF tag_len = 0
        THEN [num |-> (10 * W_PRICE * has_price + W_TAG * tag_w) * sim.den
                      + 10 * W_QUERY * sim.num,
              den |-> sim.den]
        ELSE [num |-> (10 * W_PRICE * has_price + W_TAG * tag_w) * sim.den * tag_len
                      + 10 * W_QUERY * sim.num * tag_len
                      + 10 * W_DENS * TextLen(text) * sim.den,
              den |-> sim.den * tag_len]

ScoreLess(a, b) == a.num * b.den < b.num * a.den

ScoreEq(a, b) == a.num * b.den = b.num * a.den

(* the walk with the word threshold one too low *)
EligibleLoose(s, i, rem, min_words) ==
    /\ i \notin rem
    /\ InTagW(s.html[i].tag)
    /\ ~IsPromo(s, i, rem)
    /\ LET text == GetText(s, i, rem)
       IN  /\ text # <<>>
           /\ LooksLikePrice(s, text, i) \/ Len(text) >= min_words - 1

(* the elements the walk of lines 81-104 scores *)
Eligible(s, i, rem, min_words) ==
    /\ i \notin rem
    /\ InTagW(s.html[i].tag)
    /\ ~IsPromo(s, i, rem)
    /\ LET text == GetText(s, i, rem)
       IN  /\ text # <<>>
           /\ LooksLikePrice(s, text, i) \/ Len(text) >= min_words

EligibleSet(s, rem, min_words) ==
    {i \in 1..Len(s.html) : Eligible(s, i, rem, min_words)}

(* the walk with order counting every element it passes *)
WalkCountsEveryElement(s, rem, min_words, query) ==
    {[order |-> i - 1,
      score |-> Score(s, i, GetText(s, i, rem), rem, query),
      node  |-> i] : i \in EligibleSet(s, rem, min_words)}

(* candidates after the walk: (order, score, node) in document order *)
Walk(s, rem, min_words, query) ==
    LET el == EligibleSet(s, rem, min_words)
    IN  {[order |-> Cardinality({j \in el : j < i}),
          score |-> Score(s, i, GetText(s, i, rem), rem, query),
          node  |-> i] : i \in el}

(* the sort key of line 110: score descending, then order ascending *)
Before(a, b) ==
    \/ ScoreLess(b.score, a.score)
    \/ ScoreEq(a.score, b.score) /\ a.order < b.order

(* the candidates left in the order of the walk *)
RECURSIVE SortByDiscovery(_)
SortByDiscovery(S) ==
    IF S = {} THEN <<>>
    ELSE LET first == CHOOSE a \in S : \A b \in S : a.order <= b.order
         IN  <<first>> \o SortByDiscovery(S \ {first})

RECURSIVE SortCandidates(_)
SortCandidates(S) ==
    IF S = {} THEN <<>>
    ELSE LET first == CHOOSE a \in S : \A b \in S \ {a} : Before(a, b)
         IN  <<first>> \o SortCandidates(S \ {first})

-----------------------------------------------------------------------------
(* Compacting and overlap *)

(* the climb without the size test of lines 199-200 *)
RECURSIVE ClimbNoSizeTest(_, _, _, _)
ClimbNoSizeTest(s, current, rem, limit) ==
    LET parent == Parent(s.html, current)
    IN  IF parent = 0 THEN current
        ELSE IF ~LooksLikePrice(s, GetText(s, parent, rem), parent) THEN current
        ELSE ClimbNoSizeTest(s, parent, rem, limit)

(* the climb with the size test applied to the current node, not its parent *)
RECURSIVE ClimbSizeOfCurrent(_, _, _, _)
ClimbSizeOfCurrent(s, current, rem, limit) ==
    LET parent == Parent(s.html, current)
    IN  IF parent = 0 THEN current
        ELSE IF TextLen(GetText(s, current, rem)) > limit THEN current
        ELSE IF ~LooksLikePrice(s, GetText(s, parent, rem), parent) THEN current
        ELSE ClimbSizeOfCurrent(s, parent, rem, limit)

(* the climb of _crop_to_price_card, lines 195-203 *)
RECURSIVE Climb(_, _, _, _)
Climb(s, current, rem, limit) ==
    LET parent == Parent(s.html, current)
    IN  IF parent = 0 THEN current
        ELSE LET txt == GetText(s, parent, rem)
             IN  IF TextLen(txt) > limit THEN current
                 ELSE IF ~LooksLikePrice(s, txt, parent) THEN current
                 ELSE Climb(s, parent, rem, limit)

(* the pruning of _crop_to_price_card, lines 205-210: the tree afterwards *)
Prune(s, current, rem) ==
    Decompose(s.html, {d \in Descendants(s.html, current) \ rem : IsPromo(s, d, rem)}, rem)

(* _node_source_range(node) *)
NodeSourceRange(s, i, rem) ==
    <<Sourceline(s, i, rem), Sourceline(s, i, rem) + StrLines(s, i, rem)>>

(* _covered_by_accepted(node, ranges) *)
CoveredByAccepted(s, i, ranges, rem) ==
    LET r == NodeSourceRange(s, i, rem)
    IN  \E k \in 1..Len(ranges) : ranges[k][1] <= r[1] /\ r[2] <= ranges[k][2]

(* sorted(accepted, key=lambda n: n.sourceline or 0): a stable sort *)
RECURSIVE SortedByLine(_, _, _)
SortedByLine(s, seq, rem) ==
    IF seq = <<>> THEN <<>>
    ELSE LET k == CHOOSE k \in 1..Len(seq) :
                    \A m \in 1..Len(seq) :
                        \/ Sourceline(s, seq[k], rem) < Sourceline(s, seq[m], rem)
                        \/ Sourceline(s, seq[k], rem) = Sourceline(s, seq[m], rem) /\ k <= m
         IN  <<seq[k]>> \o SortedByLine(s, SubSeq(seq, 1, k - 1) \o SubSeq(seq, k + 1, Len(seq)), rem)

(* the list without the seen_html test *)
DedupeKeepsAll(frags, seen) == frags

(* lines 129-136: the fragments in that order, an already seen string dropped *)
RECURSIVE Dedupe(_, _)
Dedupe(frags, seen) ==
    IF frags = <<>> THEN <<>>
    ELSE IF Head(frags) \in seen THEN Dedupe(Tail(frags), seen)
    ELSE <<Head(frags)>> \o Dedupe(Tail(frags), seen \cup {Head(frags)})

(* lines 128-138: order by source line, serialize, drop identical strings *)
Returned(s, cards, rem) ==
    LET sorted == SortedByLine(s, cards, rem)
    IN  Dedupe([k \in 1..Len(cards) |-> Fragment(s, sorted[k], rem)], {})

(* the tree with the strip of lines 75-76 left out *)
StrippedNothing(doc) == {}

(* lines 75-76: the elements decomposed for their tag, with their subtrees *)
Stripped(doc) == Decompose(doc, {i \in 1..Len(doc) : doc[i].tag \in BadTags}, {})

-----------------------------------------------------------------------------
(* The filter object and one call of filter_content *)

MinWordArgs == {DefaultMinWords}

(* the constructor's retention_threshold argument *)
RetentionArgs == {DefaultRetention}

NoSoup == [html |-> <<>>, layout |-> "oneline", tracksLines |-> FALSE]

NoPage == [depth |-> <<>>, score |-> <<>>, similar |-> {}]

(* UniversalProductFilter is not used *)
UniversalIdle ==
    /\ MODELS_AVAILABLE = FALSE
    /\ u_pc = "idle"
    /\ u_keep_top_n = 0
    /\ u_page = NoPage
    /\ u_candidates = <<>>
    /\ u_unique = <<>>
    /\ u_discard = {}
    /\ u_i = 0
    /\ u_result = <<>>

(* prune_invalid_links is not used *)
LinksIdle ==
    /\ links = <<>>
    /\ entry_url = <<>>
    /\ reduced = <<>>
    /\ l_seen = {}
    /\ l_i = 0
    /\ l_pc = "idle"

DomainNames == {"a.com", "b.com"}

NoCall == [op |-> "none", domain |-> "", stored |-> FALSE, changed |-> FALSE,
           raised |-> FALSE, returned |-> ""]

NoSchemaCall == [made |-> FALSE, always |-> FALSE, latest |-> 0, age |-> 0,
                 crawled |-> FALSE, stored |-> FALSE, returned |-> 0]

NoExtractCall == [pc |-> "idle", mode |-> "", url |-> "", domain |-> "",
                  crawl |-> "none", parsed |-> FALSE, raised |-> FALSE,
                  returned |-> 0, links |-> <<>>, products |-> 0,
                  run_products |-> 0]

(* DB.__init__: the tables are created empty *)
DbNew ==
    /\ d_domains = {}
    /\ d_links = <<>>
    /\ d_products = <<>>
    /\ d_now = 0
    /\ d_call = NoCall
    /\ d_run = [d \in DomainNames |-> <<>>]
    /\ d_await = [d \in DomainNames |-> ""]
    /\ d_schemas = <<>>
    /\ x_call = NoSchemaCall
    /\ e_call = NoExtractCall

(* a document was parsed *)
Called == soup # NoSoup

(* __init__: user_query and keep_top_n are not assigned by the constructor *)
FilterNew ==
    /\ has = {}
    /\ user_query = <<>>
    /\ keep_top_n = 0
    /\ max_chars = DefaultMaxChars
    /\ min_word_threshold \in MinWordArgs
    /\ retention_threshold \in RetentionArgs
    /\ soup = NoSoup
    /\ removed = {}
    /\ candidates = <<>>
    /\ idx = 0
    /\ accepted = <<>>
    /\ acceptedFrom = <<>>
    /\ covered_ranges = <<>>
    /\ result = <<>>
    /\ previous = [called |-> FALSE, output |-> <<>>]
    /\ pc = "new"

Init == FilterNew /\ UniversalIdle /\ LinksIdle /\ DbNew

(* filter_instance.user_query = q, by the caller *)
SetUserQuery ==
    /\ pc = "new"
    /\ "user_query" \notin has
    /\ \E q \in Queries : user_query' = q
    /\ has' = has \cup {"user_query"}
    /\ UNCHANGED <<notFilter, retention_threshold, previous, keep_top_n, max_chars, min_word_threshold, soup, removed,
                   candidates, idx, accepted, acceptedFrom, covered_ranges,
                   result, pc>>

(* filter_instance.keep_top_n = n, by the caller *)
SetKeepTopN ==
    /\ pc = "new"
    /\ "keep_top_n" \notin has
    /\ \E n \in 0..MaxKeep : keep_top_n' = n
    /\ has' = has \cup {"keep_top_n"}
    /\ UNCHANGED <<notFilter, retention_threshold, previous, user_query, max_chars, min_word_threshold, soup, removed,
                   candidates, idx, accepted, acceptedFrom, covered_ranges,
                   result, pc>>

(* filter_instance.max_chars = m, by the caller *)
SetMaxChars ==
    /\ pc = "new"
    /\ max_chars = DefaultMaxChars
    /\ max_chars' = LowMaxChars
    /\ UNCHANGED <<notFilter, retention_threshold, previous, has, user_query, keep_top_n, min_word_threshold, soup, removed,
                   candidates, idx, accepted, acceptedFrom, covered_ranges,
                   result, pc>>

(* lines 65-66: the empty string *)
FilterEmpty ==
    /\ pc = "new"
    /\ result' = <<>>
    /\ pc' = "done"
    /\ UNCHANGED <<notFilter, retention_threshold, previous, has, user_query, keep_top_n, max_chars, min_word_threshold,
                   soup, removed, candidates, idx, accepted, acceptedFrom,
                   covered_ranges>>

(* lines 68-107: parse, strip; nothing is eligible, the empty list is returned *)
FilterNoCandidates ==
    /\ pc = "new"
    /\ \E s \in Soups :
        /\ EligibleSet(s, Stripped(s.html), min_word_threshold) = {}
        /\ soup' = s
        /\ removed' = Stripped(s.html)
    /\ result' = <<>>
    /\ pc' = "done"
    /\ UNCHANGED <<notFilter, retention_threshold, previous, has, user_query, keep_top_n, max_chars, min_word_threshold,
                   candidates, idx, accepted, acceptedFrom, covered_ranges>>

(* lines 68-102, 180: scoring the first eligible element reads self.user_query,
   which the constructor never set: AttributeError *)
FilterRaise ==
    /\ pc = "new"
    /\ "user_query" \notin has
    /\ \E s \in Soups :
        /\ EligibleSet(s, Stripped(s.html), min_word_threshold) # {}
        /\ soup' = s
        /\ removed' = Stripped(s.html)
    /\ pc' = "raised"
    /\ UNCHANGED <<notFilter, retention_threshold, previous, has, user_query, keep_top_n, max_chars, min_word_threshold,
                   candidates, idx, accepted, acceptedFrom, covered_ranges, result>>

(* lines 68-113: parse, strip, walk, score, sort *)
FilterWalk ==
    /\ pc = "new"
    /\ "user_query" \in has
    /\ \E s \in Soups :
        /\ EligibleSet(s, Stripped(s.html), min_word_threshold) # {}
        /\ soup' = s
        /\ removed' = Stripped(s.html)
        /\ candidates' = SortCandidates(
                Walk(s, Stripped(s.html), min_word_threshold, user_query))
    /\ idx' = 1
    /\ pc' = "select"
    /\ UNCHANGED <<notFilter, retention_threshold, previous, has, user_query, keep_top_n, max_chars, min_word_threshold,
                   accepted, acceptedFrom, covered_ranges, result>>

Current == candidates[idx].node

(* the cap test off by one *)
AtCapOffByOne(n_accepted, cap) == n_accepted > cap

(* line 118: len(accepted) >= self.keep_top_n *)
AtCap(n_accepted, cap) == n_accepted >= cap

DecomposedNever(node, rem) == FALSE

(* line 116: node.attrs is None, which decompose() leaves behind *)
Decomposed(node, rem) == node \in rem

(* lines 116-117: the candidate was decomposed by an earlier card's pruning *)
SkipDecomposed ==
    /\ pc = "select"
    /\ idx <= Len(candidates)
    /\ Decomposed(Current, removed)
    /\ idx' = idx + 1
    /\ UNCHANGED <<notFilter, retention_threshold, previous, has, user_query, keep_top_n, max_chars, min_word_threshold,
                   soup, removed, candidates, accepted, acceptedFrom,
                   covered_ranges, result, pc>>

(* line 118 reads self.keep_top_n, which the constructor never set *)
SelectRaise ==
    /\ pc = "select"
    /\ idx <= Len(candidates)
    /\ ~Decomposed(Current, removed)
    /\ "keep_top_n" \notin has
    /\ pc' = "raised"
    /\ UNCHANGED <<notFilter, retention_threshold, previous, has, user_query, keep_top_n, max_chars, min_word_threshold,
                   soup, removed, candidates, idx, accepted, acceptedFrom,
                   covered_ranges, result>>

(* lines 118-119, 128-138: break at the cap, return *)
StopAtCap ==
    /\ pc = "select"
    /\ idx <= Len(candidates)
    /\ ~Decomposed(Current, removed)
    /\ "keep_top_n" \in has
    /\ AtCap(Len(accepted), keep_top_n)
    /\ result' = Returned(soup, accepted, removed)
    /\ pc' = "done"
    /\ UNCHANGED <<notFilter, retention_threshold, previous, has, user_query, keep_top_n, max_chars, min_word_threshold,
                   soup, removed, candidates, idx, accepted, acceptedFrom,
                   covered_ranges>>

(* lines 120-121: continue *)
SkipCovered ==
    /\ pc = "select"
    /\ idx <= Len(candidates)
    /\ ~Decomposed(Current, removed)
    /\ "keep_top_n" \in has
    /\ ~AtCap(Len(accepted), keep_top_n)
    /\ CoveredByAccepted(soup, Current, covered_ranges, removed)
    /\ idx' = idx + 1
    /\ UNCHANGED <<notFilter, retention_threshold, previous, has, user_query, keep_top_n, max_chars, min_word_threshold,
                   soup, removed, candidates, accepted, acceptedFrom,
                   covered_ranges, result, pc>>

(* lines 123-126: compact, record the range, accept *)
Accept ==
    /\ pc = "select"
    /\ idx <= Len(candidates)
    /\ ~Decomposed(Current, removed)
    /\ "keep_top_n" \in has
    /\ ~AtCap(Len(accepted), keep_top_n)
    /\ ~CoveredByAccepted(soup, Current, covered_ranges, removed)
    /\ LET block == Climb(soup, Current, removed, max_chars)
           after == Prune(soup, block, removed)
       IN  /\ removed' = after
           /\ covered_ranges' = Append(covered_ranges, NodeSourceRange(soup, block, after))
           /\ accepted' = Append(accepted, block)
           /\ acceptedFrom' = Append(acceptedFrom, Current)
    /\ idx' = idx + 1
    /\ UNCHANGED <<notFilter, retention_threshold, previous, has, user_query, keep_top_n, max_chars, min_word_threshold,
                   soup, candidates, result, pc>>

(* lines 115, 128-138: the loop runs out of candidates, return *)
LoopEnd ==
    /\ pc = "select"
    /\ idx > Len(candidates)
    /\ result' = Returned(soup, accepted, removed)
    /\ pc' = "done"
    /\ UNCHANGED <<notFilter, retention_threshold, previous, has, user_query, keep_top_n, max_chars, min_word_threshold,
                   soup, removed, candidates, idx, accepted, acceptedFrom,
                   covered_ranges>>

(* "".join(result) parsed again: the elements of the fragments, one after the
   other under the body; a decomposed card prints no element the walk looks at *)
RECURSIVE Reparse(_)
Reparse(frags) ==
    IF frags = <<>> THEN <<>>
    ELSE LET f == Head(frags)
             els == SelectSeq(f, LAMBDA e : "tag" \in DOMAIN e)
         IN  [k \in 1..Len(els) |->
                [tag |-> els[k].tag, cls |-> els[k].cls, txt |-> els[k].txt,
                 depth |-> els[k].depth + 1]]
             \o Reparse(Tail(frags))

(* filter_content("".join(result)) on the same filter: lines 65-113 on the
   markup of the returned fragments, the body being the container *)
Refilter ==
    /\ pc = "done"
    /\ Called
    /\ soup.layout = "oneline"
    /\ ~previous.called
    /\ previous' = [called |-> TRUE, output |-> result]
    /\ LET s   == [html |-> Reparse(result), layout |-> "oneline",
                   tracksLines |-> soup.tracksLines]
           rem == Stripped(s.html)
       IN  /\ soup' = s
           /\ removed' = rem
           /\ accepted' = <<>>
           /\ acceptedFrom' = <<>>
           /\ covered_ranges' = <<>>
           /\ IF EligibleSet(s, rem, min_word_threshold) = {}
              THEN /\ candidates' = <<>>
                   /\ idx' = 0
                   /\ result' = <<>>
                   /\ pc' = "done"
              ELSE /\ candidates' = SortCandidates(
                        Walk(s, rem, min_word_threshold, user_query))
                   /\ idx' = 1
                   /\ result' = <<>>
                   /\ pc' = "select"
    /\ UNCHANGED <<notFilter, retention_threshold, has, user_query, keep_top_n, max_chars, min_word_threshold>>

Next ==
    \/ SetUserQuery
    \/ SetKeepTopN
    \/ SetMaxChars
    \/ FilterEmpty
    \/ FilterNoCandidates
    \/ FilterRaise
    \/ FilterWalk
    \/ SkipDecomposed
    \/ SelectRaise
    \/ StopAtCap
    \/ SkipCovered
    \/ Accept
    \/ LoopEnd
    \/ Refilter

Spec == Init /\ [][Next]_vars

-----------------------------------------------------------------------------
(* UniversalProductFilter: the module, the constructor, filter_content *)

(* bounds of the pages *)
MaxUNodes == 2

MaxUKeep == 2

(* what _score_element_with_nlp can give; 0 stands for an element the
   pre-filters of lines 141-146 reject or whose score is not positive *)
NlpScores == {0, 1, 2}

(* depth sequences of pre-order listings of n elements under the body *)
UShapes(n) ==
    {d \in [1..n -> 1..MaxUNodes] :
        /\ n > 0 => d[1] = 1
        /\ \A i \in 2..n : d[i] <= d[i - 1] + 1}

(* the pages: a tree, the score of each element, and the pairs of scored
   elements the embedding model finds similar above the threshold *)
Pages ==
    UNION {UNION {UNION {
        {[depth |-> d, score |-> sc, similar |-> sim] :
            sim \in SUBSET {{a, b} : a, b \in {i \in 1..n : sc[i] > 0}}}
        : sc \in [1..n -> NlpScores]} : d \in UShapes(n)} : n \in 1..MaxUNodes}

(* other_node.parents: the elements above an element, the body left out *)
UParents(page, i) ==
    {a \in 1..(i - 1) :
        \A j \in (a + 1)..i : page.depth[j] > page.depth[a]}

(* a threshold no similarity exceeds *)
SimilarNever(page, a, b) == FALSE

(* cosine_similarity(...) > self.similarity_threshold *)
Similar(page, a, b) == a = b \/ {a, b} \in page.similar

(* a constructor without the test of line 91 *)
ConstructNeverRaises(models_available) == FALSE

(* line 92: the constructor's test of the module flag *)
ConstructRaises(models_available) == ~models_available

(* _find_and_score_candidates: the scored elements in document order *)
FindAndScoreCandidates(page) ==
    LET scored == {i \in 1..Len(page.depth) : page.score[i] > 0}
        F[i \in 0..Len(page.depth)] ==
            IF i = 0 THEN <<>>
            ELSE IF i \in scored
                 THEN Append(F[i - 1], [score |-> page.score[i], node |-> i])
                 ELSE F[i - 1]
    IN  F[Len(page.depth)]

(* sorted(candidates, key=lambda c: c.score, reverse=True): stable *)
RECURSIVE SortedByScore(_)
SortedByScore(cands) ==
    IF cands = <<>> THEN <<>>
    ELSE LET k == CHOOSE k \in 1..Len(cands) :
                    \A m \in 1..Len(cands) :
                        \/ cands[m].score < cands[k].score
                        \/ cands[m].score = cands[k].score /\ k <= m
         IN  <<cands[k]>>
             \o SortedByScore(SubSeq(cands, 1, k - 1) \o SubSeq(cands, k + 1, Len(cands)))

(* _remove_nested_candidates: a candidate goes when its element is among the
   parents of another candidate's element *)
RemoveNestedCandidates(page, cands) ==
    SelectSeq(cands, LAMBDA c :
        ~\E m \in 1..Len(cands) :
            cands[m].node # c.node /\ c.node \in UParents(page, cands[m].node))

(* the module was imported: the models loaded or they did not *)
InitUniversal ==
    /\ FilterNew
    /\ LinksIdle
    /\ DbNew
    /\ MODELS_AVAILABLE \in BOOLEAN
    /\ u_pc = "module"
    /\ u_keep_top_n = 0
    /\ u_page = NoPage
    /\ u_candidates = <<>>
    /\ u_unique = <<>>
    /\ u_discard = {}
    /\ u_i = 0
    /\ u_result = <<>>

(* lines 91-92: UniversalProductFilter(...) raises RuntimeError *)
ConstructError ==
    /\ u_pc = "module"
    /\ ConstructRaises(MODELS_AVAILABLE)
    /\ u_pc' = "config_error"
    /\ UNCHANGED <<notUniversal, MODELS_AVAILABLE, u_keep_top_n, u_page, u_candidates,
                   u_unique, u_discard, u_i, u_result>>

(* lines 91-103: UniversalProductFilter(keep_top_n=n) *)
Construct ==
    /\ u_pc = "module"
    /\ ~ConstructRaises(MODELS_AVAILABLE)
    /\ \E n \in 1..MaxUKeep : u_keep_top_n' = n
    /\ u_pc' = "ready"
    /\ UNCHANGED <<notUniversal, MODELS_AVAILABLE, u_page, u_candidates,
                   u_unique, u_discard, u_i, u_result>>

(* lines 108-109: the empty string *)
UniversalEmpty ==
    /\ u_pc = "ready"
    /\ u_result' = <<>>
    /\ u_pc' = "returned"
    /\ UNCHANGED <<notUniversal, MODELS_AVAILABLE, u_keep_top_n, u_page, u_candidates,
                   u_unique, u_discard, u_i>>

(* lines 111-117: parse, score; no candidate, the empty list *)
UniversalNoCandidates ==
    /\ u_pc = "ready"
    /\ \E page \in Pages :
        /\ FindAndScoreCandidates(page) = <<>>
        /\ u_page' = page
    /\ u_result' = <<>>
    /\ u_pc' = "returned"
    /\ UNCHANGED <<notUniversal, MODELS_AVAILABLE, u_keep_top_n, u_candidates,
                   u_unique, u_discard, u_i>>

(* lines 111-114: parse, score *)
UniversalFind ==
    /\ u_pc = "ready"
    /\ \E page \in Pages :
        /\ FindAndScoreCandidates(page) # <<>>
        /\ u_page' = page
        /\ u_candidates' = FindAndScoreCandidates(page)
    /\ u_pc' = "deduplicate"
    /\ UNCHANGED <<notUniversal, MODELS_AVAILABLE, u_keep_top_n,
                   u_unique, u_discard, u_i, u_result>>

(* lines 182-199: sort, drop the nested, embed the descriptions *)
UniversalSortAndRemoveNested ==
    /\ u_pc = "deduplicate"
    /\ u_candidates' = RemoveNestedCandidates(u_page, SortedByScore(u_candidates))
    /\ u_unique' = <<>>
    /\ u_discard' = {}
    /\ u_i' = 1
    /\ u_pc' = "semantic"
    /\ UNCHANGED <<notUniversal, MODELS_AVAILABLE, u_keep_top_n, u_page, u_result>>

(* lines 202-204: candidate i was discarded *)
UniversalSkipDiscarded ==
    /\ u_pc = "semantic"
    /\ u_i <= Len(u_candidates)
    /\ u_i \in u_discard
    /\ u_i' = u_i + 1
    /\ UNCHANGED <<notUniversal, MODELS_AVAILABLE, u_pc, u_keep_top_n, u_page,
                   u_candidates, u_unique, u_discard, u_result>>

(* lines 206-215: keep candidate i, discard the later ones similar to it *)
UniversalKeep ==
    /\ u_pc = "semantic"
    /\ u_i <= Len(u_candidates)
    /\ u_i \notin u_discard
    /\ u_unique' = Append(u_unique, u_candidates[u_i])
    /\ u_discard' = u_discard \cup
            {j \in (u_i + 1)..Len(u_candidates) :
                /\ j \notin u_discard
                /\ Similar(u_page, u_candidates[u_i].node, u_candidates[j].node)}
    /\ u_i' = u_i + 1
    /\ UNCHANGED <<notUniversal, MODELS_AVAILABLE, u_pc, u_keep_top_n, u_page,
                   u_candidates, u_result>>

(* lines 217, 122-130: the top keep_top_n of the unique candidates, printed *)
UniversalReturn ==
    /\ u_pc = "semantic"
    /\ u_i > Len(u_candidates)
    /\ LET top == SortedByScore(u_unique)
           n   == IF Len(top) < u_keep_top_n THEN Len(top) ELSE u_keep_top_n
       IN  u_result' = [k \in 1..n |-> top[k].node]
    /\ u_pc' = "returned"
    /\ UNCHANGED <<notUniversal, MODELS_AVAILABLE, u_keep_top_n, u_page, u_candidates,
                   u_unique, u_discard, u_i>>

NextUniversal ==
    \/ ConstructError
    \/ Construct
    \/ UniversalEmpty
    \/ UniversalNoCandidates
    \/ UniversalFind
    \/ UniversalSortAndRemoveNested
    \/ UniversalSkipDiscarded
    \/ UniversalKeep
    \/ UniversalReturn

SpecUniversal == InitUniversal /\ [][NextUniversal]_vars

-----------------------------------------------------------------------------
(* prune_invalid_links (src/util/url_helpers.py).

   A URL string is held as what urlparse makes of it: scheme, netloc (the
   labels of the host), path (rooted or not, and its segments) and fragment
   ("none" when the string has no '#').  An href is a URL string with or
   without blanks around it. *)

MaxLinks == 2

NoPath   == [rooted |-> FALSE, segs |-> <<>>]
Url(scheme, netloc, rooted, segs, frag) ==
    [scheme |-> scheme, netloc |-> netloc,
     path |-> [rooted |-> rooted, segs |-> segs], frag |-> frag]

EmptyUrl == Url("", <<>>, FALSE, <<>>, "none")

Href(blank, url) == [blank |-> blank, url |-> url]

(* the hrefs of the links: "", " ", "mailto:a", "tel:1", "#top", "/shop",
   " /shop", "shop", "https://example.com/shop",
   "https://www.example.com/shop", "https://external.com/shop",
   "//example.com/shop" *)
Hrefs ==
    { Href(FALSE, EmptyUrl),
      Href(TRUE,  EmptyUrl),
      Href(FALSE, Url("mailto", <<>>, FALSE, <<"a">>, "none")),
      Href(FALSE, Url("tel", <<>>, FALSE, <<"1">>, "none")),
      Href(FALSE, Url("", <<>>, FALSE, <<>>, "top")),
      Href(FALSE, Url("", <<>>, TRUE, <<"shop">>, "none")),
      Href(TRUE,  Url("", <<>>, TRUE, <<"shop">>, "none")),
      Href(FALSE, Url("", <<>>, FALSE, <<"shop">>, "none")),
      Href(FALSE, Url("https", <<"example", "com">>, TRUE, <<"shop">>, "none")),
      Href(FALSE, Url("https", <<"www", "example", "com">>, TRUE, <<"shop">>, "none")),
      Href(FALSE, Url("https", <<"external", "com">>, TRUE, <<"shop">>, "none")),
      Href(FALSE, Url("", <<"example", "com">>, TRUE, <<"shop">>, "none")) }

(* "https://example.com" and "https://www.example.com/" *)
EntryUrls ==
    { Href(FALSE, Url("https", <<"example", "com">>, FALSE, <<>>, "none")),
      Href(FALSE, Url("https", <<"www", "example", "com">>, TRUE, <<>>, "none")) }

(* the lists of links: each link is its href and its place in the list *)
LinkLists ==
    UNION { [1..n -> Hrefs] : n \in 0..MaxLinks }

(* href.strip() *)
Strip(href) == Href(FALSE, href.url)

(* not href: the empty string *)
IsEmptyHref(href) == href = Href(FALSE, EmptyUrl)

(* href.startswith("mailto:") or href.startswith("tel:") *)
StartsWithMailtoOrTel(href) ==
    ~href.blank /\ href.url.scheme \in {"mailto", "tel"}

(* href == "#" or href.startswith("#") *)
StartsWithHash(href) ==
    /\ ~href.blank
    /\ href.url.scheme = ""
    /\ href.url.netloc = <<>>
    /\ href.url.path = NoPath
    /\ href.url.frag # "none"

(* urllib.parse.urljoin(base, url) *)
Urljoin(base, url) ==
    IF url = EmptyUrl THEN base
    ELSE IF url.scheme # "" /\ url.scheme # base.scheme THEN url
    ELSE IF url.netloc # <<>> THEN [url EXCEPT !.scheme = base.scheme]
    ELSE [scheme |-> base.scheme,
          netloc |-> base.netloc,
          path   |-> IF url.path = NoPath THEN base.path
                     ELSE IF url.path.rooted THEN url.path
                     ELSE [rooted |-> TRUE,
                           segs   |-> (IF base.path.segs = <<>> THEN <<>>
                                       ELSE SubSeq(base.path.segs, 1,
                                                   Len(base.path.segs) - 1))
                                      \o url.path.segs],
          frag   |-> url.frag]

(* normalize_url *)
NormalizeUrl(url, base_url) ==
    IF url.netloc = <<>> THEN Urljoin(base_url, url) ELSE url

(* get_base_domain: the netloc without a leading "www." *)
GetBaseDomain(url) ==
    IF url.netloc # <<>> /\ Head(url.netloc) = "www"
    THEN Tail(url.netloc)
    ELSE url.netloc

(* an absolute URL names its scheme and its host *)
IsAbsolute(url) == url.scheme # "" /\ url.netloc # <<>>

(* the link the loop is at, its href as lines 37-40 read it, and the URL of
   line 48 *)
CurHref == Strip(links[l_i])
FullUrl == NormalizeUrl(CurHref.url, entry_url.url)

AtLink == l_pc = "loop" /\ l_i <= Len(links)

InitLinks ==
    /\ FilterNew
    /\ UniversalIdle
    /\ DbNew
    /\ links \in LinkLists
    /\ entry_url \in EntryUrls
    /\ reduced = <<>>
    /\ l_seen = {}
    /\ l_i = 1
    /\ l_pc = "loop"

LinkNext == l_i' = l_i + 1 /\ UNCHANGED <<notLinks, links, entry_url, l_pc>>

(* lines 37-39: no href *)
SkipEmptyHref ==
    /\ AtLink
    /\ IsEmptyHref(links[l_i])
    /\ UNCHANGED <<reduced, l_seen>>
    /\ LinkNext

(* lines 42-43 *)
SkipMailtoTel ==
    /\ AtLink
    /\ ~IsEmptyHref(links[l_i])
    /\ StartsWithMailtoOrTel(CurHref)
    /\ UNCHANGED <<reduced, l_seen>>
    /\ LinkNext

(* lines 45-46 *)
SkipFragment ==
    /\ AtLink
    /\ ~IsEmptyHref(links[l_i])
    /\ ~StartsWithMailtoOrTel(CurHref)
    /\ StartsWithHash(CurHref)
    /\ UNCHANGED <<reduced, l_seen>>
    /\ LinkNext

PassesHrefTests ==
    /\ AtLink
    /\ ~IsEmptyHref(links[l_i])
    /\ ~StartsWithMailtoOrTel(CurHref)
    /\ ~StartsWithHash(CurHref)

(* lines 52-53 *)
SkipOtherDomain ==
    /\ PassesHrefTests
    /\ GetBaseDomain(FullUrl) # GetBaseDomain(entry_url.url)
    /\ UNCHANGED <<reduced, l_seen>>
    /\ LinkNext

(* lines 55-56 *)
SkipSeen ==
    /\ PassesHrefTests
    /\ GetBaseDomain(FullUrl) = GetBaseDomain(entry_url.url)
    /\ FullUrl \in l_seen
    /\ UNCHANGED <<reduced, l_seen>>
    /\ LinkNext

(* lines 58-60 *)
KeepLink ==
    /\ PassesHrefTests
    /\ GetBaseDomain(FullUrl) = GetBaseDomain(entry_url.url)
    /\ FullUrl \notin l_seen
    /\ l_seen' = l_seen \cup {FullUrl}
    /\ reduced' = Append(reduced, [href |-> FullUrl, pos |-> l_i])
    /\ LinkNext

(* line 61 *)
PruneReturn ==
    /\ l_pc = "loop"
    /\ l_i > Len(links)
    /\ l_pc' = "returned"
    /\ UNCHANGED <<notLinks, links, entry_url, reduced, l_seen, l_i>>

NextLinks ==
    \/ SkipEmptyHref
    \/ SkipMailtoTel
    \/ SkipFragment
    \/ SkipOtherDomain
    \/ SkipSeen
    \/ KeepLink
    \/ PruneReturn

SpecLinks == InitLinks /\ [][NextLinks]_vars

-----------------------------------------------------------------------------
(* DB (src/db.py): the tables category_links and products, and the calls
   that write and read them.  Every call is one transaction. *)

MaxNow      == 2
MaxBatch    == 2
MaxProducts == 1

CategoryUrls == {"https://a.com/tv", "https://a.com/audio"}

(* the lists of links add_category_links is called with *)
UrlLists == UNION { [1..n -> CategoryUrls] : n \in 0..MaxBatch }

UrlsOf(rows) == {rows[i].url : i \in 1..Len(rows)}

(* s.query(CategoryLink).filter_by(url=url).first() *)
UrlStored(rows, url) == url \in UrlsOf(rows)

(* s.query(CategoryLink).filter_by(url=..., domain_id=domain.id).first():
   the id of the row, 0 for None *)
FindLink(rows, url, domain) ==
    IF \E i \in 1..Len(rows) : rows[i].url = url /\ rows[i].domain = domain
    THEN CHOOSE i \in 1..Len(rows) :
            /\ rows[i].url = url /\ rows[i].domain = domain
            /\ \A j \in 1..(i - 1) : ~(rows[j].url = url /\ rows[j].domain = domain)
    ELSE 0

ViolatesOnlyUrlDomainPair(rows, url, domain) == FindLink(rows, url, domain) # 0

(* the constraints of category_links an INSERT can break: url is unique, and
   so is the pair (url, domain_id) *)
ViolatesUnique(rows, url, domain) ==
    UrlStored(rows, url) \/ FindLink(rows, url, domain) # 0

(* CategoryLink(url=..., domain_id=...) as the server fills it in *)
NewLink(url, domain) ==
    [url |-> url, domain |-> domain, found_at |-> d_now, last_crawled_at |-> 0]

(* the body of add_category_link on the tables st (domains, links) *)
AddLinkTo(st, domain, url) ==
    IF UrlStored(st.links, url) THEN st
    ELSE [domains |-> st.domains \cup {domain},
          links   |-> Append(st.links, NewLink(url, domain))]

(* the loop of add_category_links *)
RECURSIVE AddLinksTo(_, _, _)
AddLinksTo(st, domain, urls) ==
    IF urls = <<>> THEN st
    ELSE AddLinksTo(AddLinkTo(st, domain, Head(urls)), domain, Tail(urls))

Tables == [domains |-> d_domains, links |-> d_links]

(* n rows of products of one category link *)
ProductRows(n, link, domain) == [k \in 1..n |-> [link |-> link, domain |-> domain]]

Recorded(op, domain, url, raised, returned) ==
    d_call' = [op |-> op, domain |-> domain,
               stored  |-> op = "add_category_link" /\ UrlStored(d_links, url),
               changed |-> op = "add_category_link" /\ d_links' # d_links,
               raised  |-> raised, returned |-> returned]

(* a call other than the two of the crawl loop ends every run *)
RunsEnd ==
    /\ d_run' = [d \in DomainNames |-> <<>>]
    /\ d_await' = [d \in DomainNames |-> ""]

(* time passes between calls *)
Tick ==
    /\ d_now < MaxNow
    /\ d_now' = d_now + 1
    /\ UNCHANGED <<notDb, d_domains, d_links, d_products, d_call, d_run,
                   d_await>>

(* add_category_link, lines 94-96: the URL is stored already *)
AddCategoryLinkExisting ==
    \E domain \in DomainNames : \E url \in CategoryUrls :
        /\ UrlStored(d_links, url)
        /\ RunsEnd
        /\ UNCHANGED <<notDb, d_domains, d_links, d_products, d_now>>
        /\ Recorded("add_category_link", "", url, FALSE, "")

(* add_category_link, lines 98-103 *)
AddCategoryLinkNew ==
    \E domain \in DomainNames : \E url \in CategoryUrls :
        /\ ~UrlStored(d_links, url)
        /\ d_domains' = AddLinkTo(Tables, domain, url).domains
        /\ d_links' = AddLinkTo(Tables, domain, url).links
        /\ RunsEnd
        /\ UNCHANGED <<notDb, d_products, d_now>>
        /\ Recorded("add_category_link", "", url, FALSE, "")

(* add_category_links *)
AddCategoryLinks ==
    \E domain \in DomainNames : \E urls \in UrlLists :
        /\ d_domains' = AddLinksTo(Tables, domain, urls).domains
        /\ d_links' = AddLinksTo(Tables, domain, urls).links
        /\ RunsEnd
        /\ UNCHANGED <<notDb, d_products, d_now>>
        /\ Recorded("add_category_links", "", "", FALSE, "")

(* add_product (n = 1) and add_products: the category link is there or is
   inserted, then the products are *)
AddProductsTo(op, domain, url, n) ==
    LET link == FindLink(d_links, url, domain)
    IN  /\ Len(d_products) + n <= MaxProducts
        /\ link # 0 \/ ~ViolatesUnique(d_links, url, domain)
        /\ d_domains' = d_domains \cup {domain}
        /\ d_links' = IF link # 0 THEN d_links
                      ELSE Append(d_links, NewLink(url, domain))
        /\ d_products' = d_products \o
              ProductRows(n, IF link # 0 THEN link ELSE Len(d_links) + 1, domain)
        /\ RunsEnd
        /\ UNCHANGED <<notDb, d_now>>
        /\ Recorded(op, "", url, FALSE, "")

(* add_product and add_products: the INSERT of the category link breaks a
   constraint, the session is rolled back and the error raised *)
AddProductsRaise(op, domain, url) ==
    /\ FindLink(d_links, url, domain) = 0
    /\ ViolatesUnique(d_links, url, domain)
    /\ RunsEnd
    /\ UNCHANGED <<notDb, d_domains, d_links, d_products, d_now>>
    /\ Recorded(op, "", url, TRUE, "")

AddProduct ==
    \E domain \in DomainNames : \E url \in CategoryUrls :
        AddProductsTo("add_product", domain, url, 1)

AddProductIntegrityError ==
    \E domain \in DomainNames : \E url \in CategoryUrls :
        AddProductsRaise("add_product", domain, url)

AddProducts ==
    \E domain \in DomainNames : \E url \in CategoryUrls :
        \E n \in 0..MaxProducts :
            AddProductsTo("add_products", domain, url, n)

AddProductsIntegrityError ==
    \E domain \in DomainNames : \E url \in CategoryUrls :
        AddProductsRaise("add_products", domain, url)

(* update_category_link_crawled, lines 281-285 *)
UpdateCategoryLinkCrawled ==
    \E domain \in DomainNames : \E url \in CategoryUrls :
        LET link == FindLink(d_links, url, domain)
        IN  /\ link # 0
            /\ d_now < MaxNow
            /\ d_now' = d_now + 1
            /\ d_links' = [d_links EXCEPT ![link].last_crawled_at = d_now + 1]
            /\ d_run' = [d_run EXCEPT ![domain] =
                            IF d_await[domain] = url THEN @ ELSE <<>>]
            /\ d_await' = [d_await EXCEPT ![domain] = ""]
            /\ UNCHANGED <<notDb, d_domains, d_products>>
            /\ Recorded("update_category_link_crawled", "", url, FALSE, "")

(* update_category_link_crawled without such a link: nothing is committed *)
UpdateCategoryLinkMissing ==
    \E domain \in DomainNames : \E url \in CategoryUrls :
        /\ FindLink(d_links, url, domain) = 0
        /\ d_run' = [d_run EXCEPT ![domain] = <<>>]
        /\ d_await' = [d_await EXCEPT ![domain] = ""]
        /\ UNCHANGED <<notDb, d_domains, d_links, d_products, d_now>>
        /\ Recorded("update_category_link_crawled", "", url, FALSE, "")

LinksOfDomain(rows, domain) == {i \in 1..Len(rows) : rows[i].domain = domain}

OrderNullsLast(r, q) ==
    \/ (r.last_crawled_at # 0 /\ q.last_crawled_at = 0)
    \/ (r.last_crawled_at # 0 /\ q.last_crawled_at # 0
        /\ r.last_crawled_at < q.last_crawled_at)
    \/ (r.last_crawled_at = q.last_crawled_at /\ r.found_at <= q.found_at)

(* order_by(last_crawled_at.asc().nullsfirst(), found_at.asc()): r is not
   after q *)
Order(r, q) ==
    \/ r.last_crawled_at < q.last_crawled_at
    \/ (r.last_crawled_at = q.last_crawled_at /\ r.found_at <= q.found_at)

(* the rows .first() can give *)
FirstInOrder(rows, domain) ==
    {i \in LinksOfDomain(rows, domain) :
        \A j \in LinksOfDomain(rows, domain) : Order(rows[i], rows[j])}

(* get_oldest_uncrawled_category_link, lines 302-309 *)
GetOldestUncrawledCategoryLink ==
    \E domain \in d_domains : \E i \in FirstInOrder(d_links, domain) :
        /\ d_run' = [d_run EXCEPT ![domain] =
                        IF d_await[domain] = "" THEN Append(@, d_links[i].url)
                        ELSE <<d_links[i].url>>]
        /\ d_await' = [d_await EXCEPT ![domain] = d_links[i].url]
        /\ UNCHANGED <<notDb, d_domains, d_links, d_products, d_now>>
        /\ Recorded("get_oldest_uncrawled_category_link", domain, "", FALSE,
                    d_links[i].url)

(* get_oldest_uncrawled_category_link, lines 300-301 and 310 *)
GetOldestNone ==
    \E domain \in DomainNames :
        /\ domain \notin d_domains \/ LinksOfDomain(d_links, domain) = {}
        /\ d_run' = [d_run EXCEPT ![domain] = <<>>]
        /\ d_await' = [d_await EXCEPT ![domain] = ""]
        /\ UNCHANGED <<notDb, d_domains, d_links, d_products, d_now>>
        /\ Recorded("get_oldest_uncrawled_category_link", domain, "", FALSE, "")

InitDb == FilterNew /\ UniversalIdle /\ LinksIdle /\ DbNew

NextDb ==
    \/ Tick
    \/ AddCategoryLinkExisting
    \/ AddCategoryLinkNew
    \/ AddCategoryLinks
    \/ AddProduct
    \/ AddProductIntegrityError
    \/ AddProducts
    \/ AddProductsIntegrityError
    \/ UpdateCategoryLinkCrawled
    \/ UpdateCategoryLinkMissing
    \/ GetOldestUncrawledCategoryLink
    \/ GetOldestNone

SpecDb == InitDb /\ [][NextDb]_vars

-----------------------------------------------------------------------------
(* ProductExtractor._get_or_generate_schema (src/products/extractor.py) with
   DB.get_latest_schema and DB.add_schema.  Times are in seconds. *)

MaxSchemas == 2

(* line 181: the age above which a stored schema is replaced *)
SchemaMaxAge == 120

(* line 163: the age the docstring names *)
OneHour == 3600

(* the instants at which the extractor is called *)
Instants == {0, 60, 120, 180, 3600, 3660, 3780}

(* what the steps of the extractor leave alone *)
notSchema == <<filterVars, universalVars, linkVars, d_links, d_products,
               d_call, d_run, d_await, extractVars>>

SchemasOfDomain(rows, domain) == {i \in 1..Len(rows) : rows[i].domain = domain}

(* get_latest_schema: order_by(generated_at.desc()).first(); the rows it can
   give, none for an unknown domain or a domain without schema *)
LatestSchema(rows, domains, domain) ==
    IF domain \notin domains THEN {}
    ELSE {i \in SchemasOfDomain(rows, domain) :
             \A j \in SchemasOfDomain(rows, domain) :
                 rows[j].generated_at <= rows[i].generated_at}

(* line 181 *)
Regenerate(always, found, age) ==
    always \/ ~found \/ age > SchemaMaxAge

(* the latest schema a call finds (0: none) and its age, lines 168-179 *)
FoundSchemas(domain) ==
    IF LatestSchema(d_schemas, d_domains, domain) = {} THEN {0}
    ELSE LatestSchema(d_schemas, d_domains, domain)

AgeOf(latest) == IF latest = 0 THEN 0 ELSE d_now - d_schemas[latest].generated_at

(* time passes between calls *)
Elapse ==
    \E t \in Instants :
        /\ t > d_now
        /\ d_now' = t
        /\ UNCHANGED <<notSchema, d_domains, d_schemas, x_call>>

(* lines 255-258: the stored schema is returned *)
ReuseSchema ==
    \E domain \in DomainNames : \E always \in BOOLEAN :
        \E latest \in FoundSchemas(domain) :
            /\ ~Regenerate(always, latest # 0, AgeOf(latest))
            /\ x_call' = [made |-> TRUE, always |-> always, latest |-> latest,
                          age |-> AgeOf(latest), crawled |-> FALSE,
                          stored |-> FALSE, returned |-> latest]
            /\ UNCHANGED <<notSchema, d_domains, d_schemas, d_now>>

(* lines 181-202: the page is crawled and the crawl fails or gives no HTML *)
GenerateSchemaCrawlFailed ==
    \E domain \in DomainNames : \E always \in BOOLEAN :
        \E latest \in FoundSchemas(domain) :
            /\ Regenerate(always, latest # 0, AgeOf(latest))
            /\ x_call' = [made |-> TRUE, always |-> always, latest |-> latest,
                          age |-> AgeOf(latest), crawled |-> TRUE,
                          stored |-> FALSE, returned |-> 0]
            /\ UNCHANGED <<notSchema, d_domains, d_schemas, d_now>>

(* lines 181-253 and 258: a schema is generated, stored by add_schema and
   returned *)
GenerateSchema ==
    \E domain \in DomainNames : \E always \in BOOLEAN :
        \E latest \in FoundSchemas(domain) :
            /\ Regenerate(always, latest # 0, AgeOf(latest))
            /\ Len(d_schemas) < MaxSchemas
            /\ d_domains' = d_domains \cup {domain}
            /\ d_schemas' = Append(d_schemas,
                                   [domain |-> domain, generated_at |-> d_now])
            /\ x_call' = [made |-> TRUE, always |-> always, latest |-> latest,
                          age |-> AgeOf(latest), crawled |-> TRUE,
                          stored |-> TRUE, returned |-> Len(d_schemas) + 1]
            /\ UNCHANGED <<notSchema, d_now>>

InitSchema == FilterNew /\ UniversalIdle /\ LinksIdle /\ DbNew

NextSchema ==
    \/ Elapse
    \/ ReuseSchema
    \/ GenerateSchemaCrawlFailed
    \/ GenerateSchema

SpecSchema == InitSchema /\ [][NextSchema]_vars

-----------------------------------------------------------------------------
(* ProductExtractor._extract_with_llm and _extract_with_schema
   (src/products/extractor.py) and extract_products (src/main.py) on the
   tables of DB.  The extractor is called on its own, with any category URL
   and mode, or by extract_products. *)

MaxValid == 1

ExtractModes == {"llm", "schema"}

(* urlparse of the category URLs *)
Urlparse(url) ==
    IF url = "https://a.com/tv"
    THEN Url("https", <<"a", "com">>, TRUE, <<"tv">>, "none")
    ELSE Url("https", <<"a", "com">>, TRUE, <<"audio">>, "none")

(* the labels of a host joined by dots *)
RECURSIVE Dotted(_)
Dotted(labels) ==
    IF labels = <<>> THEN ""
    ELSE IF Len(labels) = 1 THEN Head(labels)
    ELSE Head(labels) \o "." \o Dotted(Tail(labels))

(* lines 264 and 298: base_domain = get_base_domain(category_url) *)
BaseDomainOf(url) == Dotted(GetBaseDomain(Urlparse(url)))

ResultSuccessAlways(crawl) == TRUE

(* lines 274 and 324: if result.success *)
ResultSuccess(crawl) == crawl = "ok"

(* add_products of n products on category_links: the link it inserts is
   refused (raised) or the rows are committed *)
AddProductsOn(rows, products, domain, url, n) ==
    LET link == FindLink(rows, url, domain)
    IN  IF link = 0 /\ ViolatesUnique(rows, url, domain)
        THEN [raised |-> TRUE, links |-> rows, products |-> products]
        ELSE [raised   |-> FALSE,
              links    |-> IF link # 0 THEN rows
                           ELSE Append(rows, NewLink(url, domain)),
              products |-> products \o
                  ProductRows(n, IF link # 0 THEN link ELSE Len(rows) + 1,
                              domain)]

(* update_category_link_crawled at the instant now *)
CrawledOn(rows, domain, url, now) ==
    LET link == FindLink(rows, url, domain)
    IN  IF link = 0 THEN rows
        ELSE [rows EXCEPT ![link].last_crawled_at = now]

(* the calls of the extractor that can be made: extract_products passes
   first_link and leaves the mode at its default, "schema" (main.py, lines
   46-48; extractor.py, line 373) *)
ExtractorCalls ==
    IF e_call.pc = "extract"
    THEN {[mode |-> "schema", url |-> e_call.url]}
    ELSE IF e_call.pc = "idle"
    THEN [mode : ExtractModes, url : CategoryUrls]
    ELSE {}

(* line 302: _get_or_generate_schema(always_generate_schema=True) stored a
   schema of the base domain; _extract_with_llm asks for none *)
SchemaStored(call) ==
    IF call.mode = "schema"
    THEN /\ d_domains' = d_domains \cup {BaseDomainOf(call.url)}
         /\ d_schemas' = Append(d_schemas, [domain |-> BaseDomainOf(call.url),
                                            generated_at |-> d_now])
    ELSE UNCHANGED <<d_domains, d_schemas>>

(* the extractor ends: it returned a list of n products or raised *)
ExtractorEnds(call, crawl, parsed, raised, n) ==
    e_call' = [e_call EXCEPT
                 !.pc = IF raised THEN "raised"
                        ELSE IF e_call.pc = "extract" THEN "store"
                        ELSE "returned",
                 !.mode = call.mode, !.url = call.url, !.crawl = crawl,
                 !.parsed = parsed, !.raised = raised, !.returned = n,
                 !.links = d_links, !.products = Len(d_products)]

(* _extract_with_schema, lines 302-305: no schema, the crawl of
   _get_or_generate_schema failed or gave no HTML *)
ExtractNoSchema ==
    \E call \in ExtractorCalls :
        /\ call.mode = "schema"
        /\ ExtractorEnds(call, "none", FALSE, FALSE, 0)
        /\ UNCHANGED <<filterVars, universalVars, linkVars, dbVars, schemaVars>>

(* lines 290-292 and 364-367: the crawl failed, the empty list is returned *)
ExtractCrawlFailed ==
    \E call \in ExtractorCalls : \E crawl \in {"failed", "ok"} :
        /\ ~ResultSuccess(crawl)
        /\ SchemaStored(call)
        /\ ExtractorEnds(call, crawl, FALSE, FALSE, 0)
        /\ UNCHANGED <<filterVars, universalVars, linkVars, x_call, d_links,
                       d_products, d_now, d_call, d_run, d_await>>

(* lines 275-279 and 329-335: json.loads raises, [] is returned *)
ExtractParseError ==
    \E call \in ExtractorCalls : \E crawl \in {"failed", "ok"} :
        /\ ResultSuccess(crawl)
        /\ SchemaStored(call)
        /\ ExtractorEnds(call, crawl, FALSE, FALSE, 0)
        /\ UNCHANGED <<filterVars, universalVars, linkVars, x_call, d_links,
                       d_products, d_now, d_call, d_run, d_await>>

(* lines 280 and 355: the content is JSON of another shape than the cleaning
   reads (no object, no list of objects), and .get raises *)
ExtractShapeError ==
    \E call \in ExtractorCalls : \E crawl \in {"failed", "ok"} :
        /\ ResultSuccess(crawl)
        /\ SchemaStored(call)
        /\ ExtractorEnds(call, crawl, TRUE, TRUE, 0)
        /\ UNCHANGED <<filterVars, universalVars, linkVars, x_call, d_links,
                       d_products, d_now, d_call, d_run, d_await>>

(* lines 280-283 and 355-362: the n valid products are stored by add_products
   and the link is marked by update_category_link_crawled *)
ExtractStored ==
    \E call \in ExtractorCalls : \E crawl \in {"failed", "ok"} :
        \E n \in 0..MaxValid :
            LET domain == BaseDomainOf(call.url)
                added  == AddProductsOn(d_links, d_products, domain, call.url, n)
            IN  /\ ResultSuccess(crawl)
                /\ ~added.raised
                /\ d_now < MaxNow
                /\ d_now' = d_now + 1
                /\ SchemaStored(call)
                /\ d_links' = CrawledOn(added.links, domain, call.url, d_now + 1)
                /\ d_products' = added.products
                /\ ExtractorEnds(call, crawl, TRUE, FALSE, n)
                /\ UNCHANGED <<filterVars, universalVars, linkVars, x_call,
                               d_call, d_run, d_await>>

(* lines 282 and 361: add_products raises IntegrityError, the URL is stored
   under another domain than the base domain of the URL *)
ExtractIntegrityError ==
    \E call \in ExtractorCalls : \E crawl \in {"failed", "ok"} :
        LET domain == BaseDomainOf(call.url)
            added  == AddProductsOn(d_links, d_products, domain, call.url, 0)
        IN  /\ ResultSuccess(crawl)
            /\ added.raised
            /\ SchemaStored(call)
            /\ ExtractorEnds(call, crawl, TRUE, TRUE, 0)
            /\ UNCHANGED <<filterVars, universalVars, linkVars, x_call,
                           d_links, d_products, d_now, d_call, d_run, d_await>>

(* extract_products, lines 37-43: no category link of the domain *)
MainNoLink ==
    \E domain \in DomainNames :
        /\ e_call.pc = "idle"
        /\ domain \notin d_domains \/ LinksOfDomain(d_links, domain) = {}
        /\ e_call' = [e_call EXCEPT !.pc = "nolink", !.domain = domain]
        /\ UNCHANGED <<filterVars, universalVars, linkVars, dbVars, schemaVars>>

(* extract_products, lines 37-44: first_link is the oldest uncrawled link *)
MainFirstLink ==
    \E domain \in d_domains : \E i \in FirstInOrder(d_links, domain) :
        /\ e_call.pc = "idle"
        /\ e_call' = [e_call EXCEPT !.pc = "extract", !.domain = domain,
                                    !.url = d_links[i].url,
                                    !.run_products = Len(d_products)]
        /\ UNCHANGED <<filterVars, universalVars, linkVars, dbVars, schemaVars>>

(* extract_products, lines 49-52: the returned products are passed to
   add_products *)
MainAddProducts ==
    LET added == AddProductsOn(d_links, d_products, e_call.domain, e_call.url,
                               e_call.returned)
    IN  /\ e_call.pc = "store"
        /\ d_domains' = d_domains \cup {e_call.domain}
        /\ d_links' = added.links
        /\ d_products' = added.products
        /\ e_call' = [e_call EXCEPT !.pc = IF added.raised THEN "raised"
                                           ELSE "done"]
        /\ UNCHANGED <<filterVars, universalVars, linkVars, schemaVars, d_now,
                       d_call, d_run, d_await>>

(* the tables are filled before the extractor is called *)
Filled ==
    /\ e_call.pc = "idle"
    /\ \/ Tick
       \/ AddCategoryLinkNew
       \/ UpdateCategoryLinkCrawled

InitExtract == FilterNew /\ UniversalIdle /\ LinksIdle /\ DbNew

NextExtract ==
    \/ Filled
    \/ ExtractNoSchema
    \/ ExtractCrawlFailed
    \/ ExtractParseError
    \/ ExtractShapeError
    \/ ExtractStored
    \/ ExtractIntegrityError
    \/ MainNoLink
    \/ MainFirstLink
    \/ MainAddProducts

SpecExtract == InitExtract /\ [][NextExtract]_vars

-----------------------------------------------------------------------------
(* Properties *)


(* the tree as the walk saw it *)
AtWalk == Stripped(soup.html)

RangeInside(r, q) == q[1] <= r[1] /\ r[2] <= q[2]

(* the ancestors of an element, the body excluded *)
Ancestors(doc, i) == {a \in 1..(i - 1) : i \in Subtree(doc, a)}

(* C1: for every two distinct accepted cards, neither card's recorded source
   range is fully contained in the other's *)
C1_NoContainedRanges ==
    \A k, m \in 1..Len(accepted) :
        (k # m /\ accepted[k] # accepted[m]) =>
            ~RangeInside(covered_ranges[k], covered_ranges[m])

(* C2: no element classified as junk by _is_promo is part of a returned
   fragment: neither a card's root nor an element remaining inside a card *)
C2_NoJunkInFragments ==
    pc = "done" =>
        \A k \in 1..Len(accepted) :
            accepted[k] \notin removed =>
                \A e \in Subtree(soup.html, accepted[k]) \ removed :
                    ~IsPromo(soup, e, removed)

(* C3: filter_content on a filter as the constructor built it never raises *)
C3_NeverRaises == has = {} => pc # "raised"

(* C4: at most keep_top_n cards are accepted and at most keep_top_n fragments
   returned, and a step of the selection loop taken with keep_top_n cards
   accepted neither compacts (climbs, prunes the tree) nor accepts *)
C4_AtMostKeepTopN ==
    /\ [](("keep_top_n" \in has) =>
            /\ Len(accepted) <= keep_top_n
            /\ Len(covered_ranges) <= keep_top_n
            /\ Len(result) <= keep_top_n)
    /\ [][(pc = "select" /\ "keep_top_n" \in has /\ Len(accepted) >= keep_top_n) =>
            /\ accepted' = accepted
            /\ acceptedFrom' = acceptedFrom
            /\ removed' = removed]_vars

(* the loop broke at the cap with candidates still waiting *)
C4_Witness ==
    /\ pc = "done"
    /\ "keep_top_n" \in has
    /\ keep_top_n >= 1
    /\ Len(accepted) = keep_top_n
    /\ Len(result) = keep_top_n
    /\ idx <= Len(candidates)

(* C5: on the example document a filter in its default configuration returns
   exactly one fragment, the div with both spans *)
C5_ExampleReturnsTheDiv ==
    (has = {} /\ max_chars = DefaultMaxChars /\ Called /\ soup.html = ExampleDoc
        /\ pc \in {"done", "raised"}) =>
        (pc = "done" /\ result = <<Fragment(soup, 1, {})>>)

(* the elements from the candidate's parent up to the card's root *)
ClimbedOver(doc, from, to) == {n \in Ancestors(doc, from) : n \in Subtree(doc, to)}

(* C6: when a card is accepted, every element the compactor climbed onto had a
   normalized text of at most max_chars, and a candidate whose parent's text
   exceeds max_chars is itself the card's root *)
C6_NeverClimbsPastMaxChars ==
    [][Len(accepted') > Len(accepted) =>
        LET block == accepted'[Len(accepted')]
            up    == Parent(soup.html, Current)
        IN  /\ \A n \in ClimbedOver(soup.html, Current, block) :
                    TextLen(GetText(soup, n, removed)) <= max_chars
            /\ (up # 0 /\ TextLen(GetText(soup, up, removed)) > max_chars) =>
                    block = Current]_vars

(* a price-bearing parent too long to climb onto: the candidate is the card *)
C6_Witness ==
    \E k \in 1..Len(accepted) :
        LET up == Parent(soup.html, acceptedFrom[k])
        IN  /\ accepted[k] = acceptedFrom[k]
            /\ up # 0
            /\ up \notin removed
            /\ LooksLikePrice(soup, GetText(soup, up, removed), up)
            /\ TextLen(GetText(soup, up, removed)) > max_chars

(* C7 as stated: a card's serialized markup is at most max_chars long unless
   the candidate's own markup is longer than max_chars *)
C7_MarkupWithinMaxChars ==
    \A k \in 1..Len(accepted) :
        accepted[k] \notin removed =>
            \/ StrLen(soup, accepted[k], removed) <= max_chars
            \/ StrLen(soup, acceptedFrom[k], AtWalk) > max_chars

(* C7: a card's normalized text is at most max_chars long unless the
   candidate's own text is longer than max_chars *)
C7_TextWithinMaxChars ==
    \A k \in 1..Len(accepted) :
        accepted[k] \notin removed =>
            \/ TextLen(GetText(soup, accepted[k], removed)) <= max_chars
            \/ TextLen(GetText(soup, acceptedFrom[k], AtWalk)) > max_chars

(* a card climbed onto whose text fits and whose markup does not *)
C7_Witness ==
    \E k \in 1..Len(accepted) :
        /\ accepted[k] # acceptedFrom[k]
        /\ accepted[k] \notin removed
        /\ TextLen(GetText(soup, accepted[k], removed)) <= max_chars
        /\ StrLen(soup, accepted[k], removed) > max_chars
        /\ StrLen(soup, acceptedFrom[k], AtWalk) <= max_chars

(* C8: every returned card shows a price-like signal after the pruning, unless
   neither its candidate nor any ancestor of the candidate showed one *)
C8_CardsKeepPriceSignal ==
    pc = "done" =>
        \A k \in 1..Len(accepted) :
            accepted[k] \notin removed =>
                \/ LooksLikePrice(soup, GetText(soup, accepted[k], removed), accepted[k])
                \/ \A n \in {acceptedFrom[k]} \cup Ancestors(soup.html, acceptedFrom[k]) :
                        ~LooksLikePrice(soup, GetText(soup, n, AtWalk), n)

(* two candidates equal in price signal, density and tag weight, of which only
   the first holds every query token *)
QueryFavours(a, b) ==
    LET ta == GetText(soup, a.node, AtWalk)
        tb == GetText(soup, b.node, AtWalk)
        tokens(text) == {Lower(w) : w \in ToSet(text)}
    IN  /\ a.node # b.node
        /\ user_query # <<>>
        /\ LooksLikePrice(soup, ta, a.node) <=> LooksLikePrice(soup, tb, b.node)
        /\ TextLen(ta) * ContentsLen(soup, b.node, AtWalk)
                = TextLen(tb) * ContentsLen(soup, a.node, AtWalk)
        /\ TAG_W[soup.html[a.node].tag] = TAG_W[soup.html[b.node].tag]
        /\ ToSet(user_query) \subseteq tokens(ta)
        /\ ~(ToSet(user_query) \subseteq tokens(tb))

(* C9: of two such candidates the one holding the query tokens scores strictly
   higher; with keep_top_n = 1 the card is never built from the other one, and
   when the two are the candidates of the call the single returned fragment is
   the card built from the one holding the query tokens *)
C9_QueryTokensWin ==
    \A a, b \in ToSet(candidates) :
        QueryFavours(a, b) =>
            /\ ScoreLess(b.score, a.score)
            /\ (pc = "done" /\ "keep_top_n" \in has /\ keep_top_n = 1) =>
                /\ Len(acceptedFrom) = 1
                /\ acceptedFrom[1] # b.node
                /\ Len(candidates) = 2 =>
                    /\ acceptedFrom = <<a.node>>
                    /\ result = <<Fragment(soup, accepted[1], removed)>>

(* the candidate holding the query token comes second in the document and is
   the one the single card is built from *)
C9_Witness ==
    /\ pc = "done"
    /\ "keep_top_n" \in has
    /\ keep_top_n = 1
    /\ Len(candidates) = 2
    /\ QueryFavours(candidates[1], candidates[2])
    /\ candidates[1].order > candidates[2].order
    /\ acceptedFrom = <<candidates[1].node>>
    /\ Len(result) = 1

(* C10: a document without any price-like signal whose elements all have fewer
   than min_words words of text yields the empty list, nothing scored or accepted *)
C10_NothingEligibleReturnsEmpty ==
    (/\ Called
     /\ \A i \in 1..Len(soup.html) :
            /\ ~LooksLikePrice(soup, GetText(soup, i, {}), i)
            /\ Len(GetText(soup, i, {})) < min_word_threshold) =>
        /\ pc = "done"
        /\ candidates = <<>>
        /\ accepted = <<>>
        /\ result = <<>>

(* a document of one-word texts without a price went through the filter *)
C10_Witness ==
    /\ Called
    /\ pc = "done"
    /\ result = <<>>
    /\ \A i \in 1..Len(soup.html) :
            /\ ~LooksLikePrice(soup, GetText(soup, i, {}), i)
            /\ Len(GetText(soup, i, {})) < min_word_threshold
    /\ \E i \in 1..Len(soup.html) :
            /\ InTagW(soup.html[i].tag)
            /\ ~IsPromo(soup, i, {})
            /\ Len(GetText(soup, i, {})) = 1

(* the line of the markup an element starts on *)
LineOf(s, i) == IF s.layout = "multiline" THEN i ELSE 1

(* the cards behind the returned fragments, in the order of the returned list *)
RECURSIVE KeptCards(_, _, _, _)
KeptCards(s, sorted, rem, seen) ==
    IF sorted = <<>> THEN <<>>
    ELSE LET f == Fragment(s, Head(sorted), rem)
         IN  IF f \in seen THEN KeptCards(s, Tail(sorted), rem, seen)
             ELSE <<Head(sorted)>> \o KeptCards(s, Tail(sorted), rem, seen \cup {f})

ReturnedCards == KeptCards(soup, SortedByLine(soup, accepted, removed), removed, {})

(* C11: along the returned list the source lines of the card roots never
   decrease, whatever the scores and the order of acceptance *)
C11_OrderedBySourceLine ==
    pc = "done" =>
        \A k, m \in 1..Len(ReturnedCards) :
            k < m => LineOf(soup, ReturnedCards[k]) <= LineOf(soup, ReturnedCards[m])

(* the accepted cards that serialize to the fragment f *)
CardsOf(f) == {accepted[k] : k \in {j \in 1..Len(accepted) : Fragment(soup, accepted[j], removed) = f}}

(* C12: the returned fragments are pairwise different strings, every accepted
   card's string is returned exactly once, and the card kept for a string is
   the first in document order of the cards that serialize to it *)
C12_NoDuplicateFragments ==
    pc = "done" =>
        /\ \A k, m \in 1..Len(result) : k # m => result[k] # result[m]
        /\ \A k \in 1..Len(accepted) :
                Cardinality({j \in 1..Len(result) :
                    result[j] = Fragment(soup, accepted[k], removed)}) = 1
        /\ Len(ReturnedCards) = Len(result)
        /\ \A j \in 1..Len(result) :
                \A c \in CardsOf(result[j]) : ReturnedCards[j] <= c

(* two different cards with the same markup were accepted, one string returned *)
C12_Witness ==
    /\ pc = "done"
    /\ Len(accepted) = 2
    /\ accepted[1] # accepted[2]
    /\ Fragment(soup, accepted[1], removed) = Fragment(soup, accepted[2], removed)
    /\ Len(result) = 1
    /\ ReturnedCards = <<accepted[1]>>

(* the elements printed in a fragment *)
PrintedTags(f) == {f[k].tag : k \in {j \in 1..Len(f) : "tag" \in DOMAIN f[j]}}

(* C13: no script, style, noscript, svg, iframe or form element is a scored
   candidate, an accepted card, or printed inside a returned fragment *)
C13_BadTagsNeverScoredNorReturned ==
    /\ \A k \in 1..Len(candidates) : soup.html[candidates[k].node].tag \notin BadTags
    /\ \A k \in 1..Len(accepted) : soup.html[accepted[k]].tag \notin BadTags
    /\ \A k \in 1..Len(result) : PrintedTags(result[k]) \cap BadTags = {}

(* a card that held a script element was returned *)
C13_Witness ==
    /\ pc = "done"
    /\ Len(result) >= 1
    /\ \E k \in 1..Len(accepted) :
        /\ accepted[k] \notin removed
        /\ \E e \in Descendants(soup.html, accepted[k]) : soup.html[e].tag \in BadTags

(* C14: a call on the concatenated output of an earlier call, with the same
   configuration, returns only fragments the earlier call returned *)
C14_RefilterReturnsSubset ==
    (previous.called /\ pc = "done") =>
        \A k \in 1..Len(result) : result[k] \in ToSet(previous.output)

(* C15: without the NLP models the constructor raises, no filter exists, and
   so no filter_content call parses a page, scores an element or returns a list *)
C15_NoModelsNoTreeWork ==
    ~MODELS_AVAILABLE =>
        /\ u_pc \in {"module", "config_error"}
        /\ u_page = NoPage
        /\ u_candidates = <<>>
        /\ u_result = <<>>

(* the constructor raised *)
C15_Witness == ~MODELS_AVAILABLE /\ u_pc = "config_error"

(* the place of an element in the sorted candidate list *)
PlaceOf(node) == CHOOSE k \in 1..Len(candidates) : candidates[k].node = node

(* C16: only the top retention fraction of the sorted candidate list (rounded
   up) is compacted and accepted; no card is built from a candidate below it *)
C16_RetentionCutsCandidates ==
    \A k \in 1..Len(acceptedFrom) :
        100 * PlaceOf(acceptedFrom[k]) < retention_threshold * Len(candidates) + 100


(* the absolute URL of the i-th link, resolved against entry_url *)
AbsoluteOf(i) == Urljoin(entry_url.url, Strip(links[i]).url)

(* the i-th link has an href, which is no mailto:, tel: or fragment link,
   and its absolute URL is of the base domain of entry_url *)
ValidLink(i) ==
    /\ ~IsEmptyHref(links[i])
    /\ ~StartsWithMailtoOrTel(Strip(links[i]))
    /\ ~StartsWithHash(Strip(links[i]))
    /\ GetBaseDomain(AbsoluteOf(i)) = GetBaseDomain(entry_url.url)

FirstOccurrence(i) ==
    \A j \in 1..(i - 1) : ValidLink(j) => AbsoluteOf(j) # AbsoluteOf(i)

(* C17: prune_invalid_links returns, in the order of the input, exactly the
   valid links, each absolute URL once (its first occurrence), and every
   returned href is absolute *)
C17_PrunedLinks ==
    l_pc = "returned" =>
        /\ \A k \in 1..Len(reduced) :
              /\ IsAbsolute(reduced[k].href)
              /\ reduced[k].href = AbsoluteOf(reduced[k].pos)
        /\ \A k \in 1..Len(reduced) : \A m \in 1..Len(reduced) :
              k < m => reduced[k].pos < reduced[m].pos
        /\ {reduced[k].pos : k \in 1..Len(reduced)}
              = {i \in 1..Len(links) : ValidLink(i) /\ FirstOccurrence(i)}


(* C18: whatever calls of add_category_link, add_category_links, add_product
   and add_products were made, no URL is in two rows of category_links, and
   a call of add_category_link with a stored URL raised nothing and changed
   no row *)
C18_UrlStoredOnce ==
    /\ \A i \in 1..Len(d_links) : \A j \in 1..Len(d_links) :
          d_links[i].url = d_links[j].url => i = j
    /\ (d_call.op = "add_category_link" /\ d_call.stored)
          => (~d_call.raised /\ ~d_call.changed)

(* add_category_link was called with a URL stored already, in a table with
   links of both domains *)
C18_Witness ==
    /\ d_call.op = "add_category_link"
    /\ d_call.stored
    /\ \A d \in DomainNames : LinksOfDomain(d_links, d) # {}

NeverCrawled(rows, domain) ==
    {i \in LinksOfDomain(rows, domain) : rows[i].last_crawled_at = 0}

(* the URLs returned from place i up to place j of a run *)
ReturnedBetween(run, i, j) == {run[k] : k \in i..j}

(* C19: get_oldest_uncrawled_category_link returned None only for a domain
   without links; a never-crawled link, none found earlier, when there is
   one; otherwise the link crawled longest ago.  In a run alternating it
   with update_category_link_crawled of the returned URL, between two
   returns of one link every link of the domain was returned *)
C19_OldestUncrawledFirst ==
    /\ d_call.op = "get_oldest_uncrawled_category_link" =>
          LET mine  == LinksOfDomain(d_links, d_call.domain)
              fresh == NeverCrawled(d_links, d_call.domain)
          IN  /\ d_call.returned = "" <=> mine = {}
              /\ fresh # {} =>
                    \E i \in fresh :
                        /\ d_links[i].url = d_call.returned
                        /\ \A j \in fresh : d_links[i].found_at <= d_links[j].found_at
              /\ (fresh = {} /\ mine # {}) =>
                    \E i \in mine :
                        /\ d_links[i].url = d_call.returned
                        /\ \A j \in mine :
                              d_links[i].last_crawled_at <= d_links[j].last_crawled_at
    /\ \A d \in DomainNames :
          \A i \in 1..Len(d_run[d]) : \A j \in 1..Len(d_run[d]) :
              (i < j /\ d_run[d][i] = d_run[d][j]) =>
                  \A m \in LinksOfDomain(d_links, d) :
                      d_links[m].url \in ReturnedBetween(d_run[d], i, j)

(* a run came back to its first link after another link of the domain *)
C19_Witness ==
    \E d \in DomainNames :
        /\ Len(d_run[d]) >= 3
        /\ d_run[d][1] = d_run[d][3]
        /\ d_run[d][1] # d_run[d][2]


(* C20: a call of _get_or_generate_schema without always_generate_schema
   that found a schema less than one hour old returned that schema, crawled
   nothing and stored nothing; and it stored a schema only when it found
   none or one older than one hour *)
C20_SchemaKeptForOneHour ==
    (x_call.made /\ ~x_call.always) =>
        /\ (x_call.latest # 0 /\ x_call.age < OneHour) =>
              (/\ ~x_call.crawled
               /\ ~x_call.stored
               /\ x_call.returned = x_call.latest)
        /\ x_call.stored => (x_call.latest = 0 \/ x_call.age > OneHour)


(* C21: the selection loop takes the candidates one after the other, and when
   it compacts and accepts a candidate, every candidate with a strictly higher
   score, or with the same score and a smaller discovery index, has its place
   before it in the list and so was considered already *)
C21_ConsideredInScoreOrder ==
    /\ [][(pc = "select" /\ idx' # idx) => idx' = idx + 1]_vars
    /\ [][(pc = "select" /\ accepted' # accepted) =>
            /\ acceptedFrom' = Append(acceptedFrom, candidates[idx].node)
            /\ \A k \in 1..Len(candidates) :
                  Before(candidates[k], candidates[idx]) => k < idx]_vars

(* two cards were accepted, the first from a candidate the walk found after
   the candidate of the second *)
C21_Witness ==
    /\ pc = "done"
    /\ Len(acceptedFrom) = 2
    /\ candidates[PlaceOf(acceptedFrom[1])].order
          > candidates[PlaceOf(acceptedFrom[2])].order


(* an element of an informative tag with text, and a price-like signal or
   min_words words *)
InformativeWithText(i) ==
    /\ i \notin AtWalk
    /\ InTagW(soup.html[i].tag)
    /\ GetText(soup, i, AtWalk) # <<>>
    /\ \/ LooksLikePrice(soup, GetText(soup, i, AtWalk), i)
       \/ Len(GetText(soup, i, AtWalk)) >= min_word_threshold

(* the candidates are one per element of E, numbered 0, 1, 2, ... in document
   order *)
OnePerElementOf(E) ==
    /\ {candidates[k].node : k \in 1..Len(candidates)} = E
    /\ Len(candidates) = Cardinality(E)
    /\ \A k \in 1..Len(candidates) :
          candidates[k].order = Cardinality({j \in E : j < candidates[k].node})

(* C22 as stated: the walk gives one candidate per element of an informative
   tag with text and a price-like signal or min_words words, none for another
   element, numbered 0, 1, 2, ... in document order *)
C22_OneCandidatePerEligible ==
    (Called /\ pc \in {"select", "done"}) =>
        OnePerElementOf({i \in 1..Len(soup.html) : InformativeWithText(i)})

(* C22 amended: one candidate per such element that _is_promo does not
   reject, none for another element, numbered 0, 1, 2, ... in document order *)
C22_OneCandidatePerEligibleNotPromo ==
    (Called /\ pc \in {"select", "done"}) =>
        OnePerElementOf({i \in 1..Len(soup.html) :
                            InformativeWithText(i) /\ ~IsPromo(soup, i, AtWalk)})

(* the walk passed an element it does not score before one it scores, and
   scored two elements *)
C22_Witness ==
    /\ Called
    /\ pc = "select"
    /\ Len(candidates) = 2
    /\ \E i \in 1..Len(soup.html) : \E k \in 1..Len(candidates) :
          /\ i < candidates[k].node
          /\ \A m \in 1..Len(candidates) : candidates[m].node # i


(* the elements the walk of lines 81-91 rejects as promo wrappers *)
JunkAtWalk ==
    {a \in 1..Len(soup.html) \ AtWalk :
        InTagW(soup.html[a].tag) /\ IsPromo(soup, a, AtWalk)}

(* C23: no element below an element the walk rejected as junk is a scored
   candidate or the element a card is built from *)
C23_NothingScoredUnderJunk ==
    (Called /\ pc \in {"select", "done"}) =>
        /\ \A k \in 1..Len(candidates) :
              Ancestors(soup.html, candidates[k].node) \cap JunkAtWalk = {}
        /\ \A k \in 1..Len(acceptedFrom) :
              Ancestors(soup.html, acceptedFrom[k]) \cap JunkAtWalk = {}


(* the tags _is_navigation_element of UniversalProductFilter names *)
ChromeTags == {"nav", "header", "footer", "aside"}

(* C24: _is_promo is true of every nav, header, footer and aside element of
   the tree, whatever its class, id and text *)
C24_ChromeTagsAreJunk ==
    Called =>
        \A i \in 1..Len(soup.html) \ removed :
            soup.html[i].tag \in ChromeTags => IsPromo(soup, i, removed)


(* the semantic pass of _deduplicate_candidates went through the whole list *)
SemanticPassDone ==
    \/ u_pc = "semantic" /\ u_i > Len(u_candidates)
    \/ u_pc = "returned" /\ u_candidates # <<>>

UniqueNodes == {u_unique[k].node : k \in 1..Len(u_unique)}

(* C25: after the semantic pass no two kept candidates are similar above the
   threshold, and every discarded candidate is similar above the threshold to
   a kept candidate before it in the sorted list *)
C25_SemanticDedupe ==
    SemanticPassDone =>
        /\ \A a \in UniqueNodes : \A b \in UniqueNodes :
              a # b => {a, b} \notin u_page.similar
        /\ \A j \in 1..Len(u_candidates) :
              u_candidates[j].node \notin UniqueNodes =>
                  \E i \in 1..(j - 1) :
                      /\ u_candidates[i].node \in UniqueNodes
                      /\ {u_candidates[i].node, u_candidates[j].node}
                            \in u_page.similar

(* the pass kept one candidate and discarded another *)
C25_Witness ==
    /\ SemanticPassDone
    /\ Len(u_unique) >= 1
    /\ Len(u_unique) < Len(u_candidates)

(* the elements _find_and_score_candidates scored *)
ScoredNodes == {i \in 1..Len(u_page.depth) : u_page.score[i] > 0}

(* C26: the containment pass removes the candidates whose element lies inside
   another candidate's element, and no other candidate; the enclosing
   candidate stays *)
C26_NestedRemovedEnclosingKept ==
    u_pc = "semantic" =>
        {u_candidates[k].node : k \in 1..Len(u_candidates)}
            = {n \in ScoredNodes : UParents(u_page, n) \cap ScoredNodes = {}}

(* the extractor has ended and nothing was called since *)
ExtractorEnded ==
    \/ e_call.pc \in {"store", "returned"}
    \/ (e_call.pc = "raised" /\ e_call.raised)

(* last_crawled_at of the i-th category link as the extractor found it *)
CrawledBefore(i) ==
    IF i <= Len(e_call.links) THEN e_call.links[i].last_crawled_at ELSE 0

(* C27: the extractor stores products and sets last_crawled_at only when the
   crawl succeeded and its content parsed as JSON; on a failed crawl or a
   parse error it returns the empty list, stores no product and leaves
   category_links as it was, so that get_oldest_uncrawled_category_link gives
   what it gave before *)
C27_StoredOnlyAfterParsedCrawl ==
    ExtractorEnded =>
        /\ (\/ Len(d_products) # e_call.products
            \/ \E i \in 1..Len(d_links) :
                  d_links[i].last_crawled_at # CrawledBefore(i))
              => (e_call.crawl = "ok" /\ e_call.parsed)
        /\ ~(e_call.crawl = "ok" /\ e_call.parsed) =>
              /\ e_call.returned = 0
              /\ ~e_call.raised
              /\ Len(d_products) = e_call.products
              /\ d_links = e_call.links
              /\ \A d \in DomainNames :
                    FirstInOrder(d_links, d) = FirstInOrder(e_call.links, d)

(* the crawl of the link next in line failed, another link was crawled
   before *)
C27_Witness ==
    /\ e_call.pc \in {"store", "returned"}
    /\ e_call.crawl = "failed"
    /\ \E i \in FirstInOrder(d_links, BaseDomainOf(e_call.url)) :
          d_links[i].url = e_call.url
    /\ \E j \in 1..Len(d_links) :
          d_links[j].url # e_call.url /\ d_links[j].last_crawled_at # 0

(* C29: one run of extract_products adds as many rows to products as the
   extractor returned products *)
C29_EachProductStoredOnce ==
    e_call.pc = "done" =>
        Len(d_products) - e_call.run_products = e_call.returned

(* C28: a candidate is skipped as covered only if its element is the root of
   an accepted card or lies below it: a step of the loop that passes over an
   attached candidate without accepting a card passes over an element of an
   accepted card's subtree *)
C28_CoveredOnlyInsideCard ==
    [][(/\ pc = "select"
        /\ idx' = idx + 1
        /\ accepted' = accepted
        /\ candidates[idx].node \notin removed)
          => \E k \in 1..Len(accepted) :
                candidates[idx].node \in Subtree(soup.html, accepted[k])]_vars

(* C30: a candidate decomposed by the pruning of an earlier card is never
   compacted or accepted: when a card is accepted, the candidate it was
   compacted from and the root of the card are still in the tree *)
C30_AcceptedCardsAreAttached ==
    [][(pc = "select" /\ Len(accepted') = Len(accepted) + 1) =>
          /\ candidates[idx].node \notin removed
          /\ accepted'[Len(accepted')] \notin removed
          /\ accepted'[Len(accepted')] \notin removed']_vars

(* the loop passed over a candidate that the pruning of a card had decomposed *)
C30_Witness ==
    /\ pc = "done"
    /\ accepted # <<>>
    /\ \E k \in 1..Len(candidates) :
          /\ candidates[k].node \in removed \ AtWalk
          /\ \A j \in 1..Len(acceptedFrom) : acceptedFrom[j] # candidates[k].node

=============================================================================
